---- MODULE Spec2Model ----
(***************************************************************************)
(* Call-state reconciliation engine of boostedcalls-server (calls app).    *)
(*                                                                         *)
(* The persisted state is the table of Call rows (calls/models.py).  The   *)
(* operations are the services of calls/services/calls.py and the webhook  *)
(* handlers of calls/services/webhook.py.                                  *)
(*                                                                         *)
(* Encoding of Python values:                                              *)
(*   - None of an optional scalar (datetime, int, provider id) is <<>>,    *)
(*     a present value x is <<x>>;                                         *)
(*   - text that the code inspects character by character (end reasons,    *)
(*     summaries, structured-output names) is a sequence of one-character  *)
(*     strings, None and "" both being <<>> (both are falsy to the code);  *)
(*   - other text (transcript, urls, error message) is a string, None and  *)
(*     "" both being "";                                                   *)
(*   - a dict is a function on its keys, None and {} both being <<>>.      *)
(***************************************************************************)
EXTENDS Integers, Sequences, FiniteSets, TLC

VARIABLES calls, now, inflight, last, probe

vars == <<calls, now, inflight, last, probe>>

----------------------------------------------------------------------------
(* Bounds of the model                                                     *)

MaxCalls == 1
NumUsers == 1
TickSeconds == 601
MaxNow == 601
MaxInflight == 2
RaceCalls == 4
PollCalls == 2
PollTick == 60
PollMaxNow == 180
AdmitCalls == 3
AdmitUsers == 2
SweepCalls == 2
SweepTick == 300
SweepMaxNow == 900
LiveCalls == 2
LiveTick == 400
LiveMaxNow == 1200
QuotaCalls == 3

----------------------------------------------------------------------------
(* calls/constants.py                                                      *)

MAX_PENDING_CALLS == 2
STALE_CALL_THRESHOLD_SECONDS == 600
STALE_QUEUED_SYNC_SECONDS == 120

PENDING == "pending"
QUEUED == "queued"
INITIATED == "initiated"
RINGING == "ringing"
IN_PROGRESS == "in-progress"
COMPLETED == "completed"
FAILED == "failed"
CANCELLED == "cancelled"
NO_ANSWER == "no-answer"
BUSY == "busy"
VOICEMAIL == "voicemail"

ACTIVE_STATUSES == {PENDING, QUEUED, INITIATED, RINGING, IN_PROGRESS}

STALE_ELIGIBLE_STATUSES == {PENDING, QUEUED}

TERMINAL_STATUSES == {COMPLETED, FAILED, CANCELLED, NO_ANSWER, BUSY, VOICEMAIL}

CallStatus == ACTIVE_STATUSES \cup TERMINAL_STATUSES

STATUS_ORDER ==
    [s \in CallStatus |->
        CASE s = PENDING -> 0
          [] s = QUEUED -> 1
          [] s = INITIATED -> 2
          [] s = RINGING -> 3
          [] s = IN_PROGRESS -> 4
          [] OTHER -> 10]

\* STATUS_ORDER.get(status, 0)
StatusOrderGet(status) ==
    IF status \in DOMAIN STATUS_ORDER THEN STATUS_ORDER[status] ELSE 0

----------------------------------------------------------------------------
(* Python values                                                           *)

None == <<>>

Some(x) == <<x>>

\* the provider id "" (a provider id the provider issued is <<i>>, i >= 1)
EmptyId == Some(0)

\* a test that takes every provider id for a usable one
HasProviderId_always(vapi_call_id) == TRUE

\* truthiness of a provider id (`call.vapi_call_id`, `not vapi_call_id`,
\* isnull=False with exclude("")): None and "" are falsy
HasProviderId(vapi_call_id) == vapi_call_id # None /\ vapi_call_id # EmptyId

\* str.lower() on one character
LowerChar(c) ==
    CASE c = "A" -> "a" [] c = "B" -> "b" [] c = "C" -> "c" [] c = "D" -> "d"
      [] c = "E" -> "e" [] c = "F" -> "f" [] c = "G" -> "g" [] c = "H" -> "h"
      [] c = "I" -> "i" [] c = "J" -> "j" [] c = "K" -> "k" [] c = "L" -> "l"
      [] c = "M" -> "m" [] c = "N" -> "n" [] c = "O" -> "o" [] c = "P" -> "p"
      [] c = "Q" -> "q" [] c = "R" -> "r" [] c = "S" -> "s" [] c = "T" -> "t"
      [] c = "U" -> "u" [] c = "V" -> "v" [] c = "W" -> "w" [] c = "X" -> "x"
      [] c = "Y" -> "y" [] c = "Z" -> "z" [] OTHER -> c

\* str.lower()
Lower(s) == [i \in 1..Len(s) |-> LowerChar(s[i])]

\* str.replace("-", "_")
ReplaceDash(s) == [i \in 1..Len(s) |-> IF s[i] = "-" THEN "_" ELSE s[i]]

\* sub in s
Contains(s, sub) ==
    \E i \in 1..(Len(s) - Len(sub) + 1) : SubSeq(s, i, i + Len(sub) - 1) = sub

RECURSIVE LStrip(_)
LStrip(s) == IF s # <<>> /\ Head(s) = " " THEN LStrip(Tail(s)) ELSE s

RECURSIVE RStrip(_)
RStrip(s) ==
    IF s # <<>> /\ s[Len(s)] = " " THEN RStrip(SubSeq(s, 1, Len(s) - 1)) ELSE s

\* str.strip()
Strip(s) == RStrip(LStrip(s))

\* x in list
InSeq(x, seq) == \E i \in 1..Len(seq) : seq[i] = x

K_busy == <<"b", "u", "s", "y">>
K_no_answer == <<"n", "o", "_", "a", "n", "s", "w", "e", "r">>
K_did_not_answer == <<"d", "i", "d", "_", "n", "o", "t", "_", "a", "n", "s", "w", "e", "r">>
K_voicemail == <<"v", "o", "i", "c", "e", "m", "a", "i", "l">>
K_error == <<"e", "r", "r", "o", "r">>
K_silence == <<"s", "i", "l", "e", "n", "c", "e">>
K_summary == <<"s", "u", "m", "m", "a", "r", "y">>

----------------------------------------------------------------------------
(* State transition guard and outcome normalizer                           *)

\* a guard whose comparison is the wrong way round
is_valid_transition_reversed(current, new) ==
    LET current_order == StatusOrderGet(current)
        new_order == StatusOrderGet(new)
    IN  IF new_order >= 10 THEN TRUE ELSE new_order <= current_order

\* webhook.py _is_valid_transition
is_valid_transition(current, new) ==
    LET current_order == StatusOrderGet(current)
        new_order == StatusOrderGet(new)
    IN  IF new_order >= 10 THEN TRUE ELSE new_order >= current_order

\* a guard whose comparison is strict
is_valid_status_transition_strict(current, new) ==
    StatusOrderGet(new) > StatusOrderGet(current)

\* calls.py _is_valid_status_transition
is_valid_status_transition(current, new) ==
    LET current_order == StatusOrderGet(current)
        new_order == StatusOrderGet(new)
    IN  IF new_order >= 10 THEN TRUE ELSE new_order >= current_order

VAPI_STATUS_MAP ==
    [s \in {"queued", "ringing", "in-progress", "forwarding", "ended"} |->
        CASE s = "queued" -> QUEUED
          [] s = "ringing" -> RINGING
          [] s = "in-progress" -> IN_PROGRESS
          [] s = "forwarding" -> IN_PROGRESS
          [] OTHER -> COMPLETED]

\* VAPI_STATUS_MAP.get(vapi_status); "" stands for None
VapiStatusMapGet(vapi_status) ==
    IF vapi_status \in DOMAIN VAPI_STATUS_MAP THEN VAPI_STATUS_MAP[vapi_status] ELSE ""

\* webhook.py _map_ended_reason
webhook_map_ended_reason(reason, current_status) ==
    LET reason_lower == IF reason # <<>> THEN ReplaceDash(Lower(reason)) ELSE <<>>
    IN  IF Contains(reason_lower, K_busy) THEN BUSY
        ELSE IF Contains(reason_lower, K_no_answer)
                \/ Contains(reason_lower, K_did_not_answer) THEN NO_ANSWER
        ELSE IF Contains(reason_lower, K_voicemail) THEN VOICEMAIL
        ELSE IF Contains(reason_lower, K_error) THEN FAILED
        ELSE IF Contains(reason_lower, K_silence) THEN COMPLETED
        ELSE IF current_status \in TERMINAL_STATUSES THEN current_status
        ELSE COMPLETED

\* a classification that looks for `error` before anything else
calls_map_ended_reason_error_first(reason, current_status) ==
    LET reason_lower == IF reason # <<>> THEN ReplaceDash(Lower(reason)) ELSE <<>>
    IN  IF Contains(reason_lower, K_error) THEN FAILED
        ELSE IF Contains(reason_lower, K_busy) THEN BUSY
        ELSE IF Contains(reason_lower, K_no_answer)
                \/ Contains(reason_lower, K_did_not_answer) THEN NO_ANSWER
        ELSE IF Contains(reason_lower, K_voicemail) THEN VOICEMAIL
        ELSE IF Contains(reason_lower, K_silence) THEN COMPLETED
        ELSE IF current_status \in TERMINAL_STATUSES THEN current_status
        ELSE COMPLETED

\* calls.py _map_ended_reason
calls_map_ended_reason(reason, current_status) ==
    LET reason_lower == IF reason # <<>> THEN ReplaceDash(Lower(reason)) ELSE <<>>
    IN  IF Contains(reason_lower, K_busy) THEN BUSY
        ELSE IF Contains(reason_lower, K_no_answer)
                \/ Contains(reason_lower, K_did_not_answer) THEN NO_ANSWER
        ELSE IF Contains(reason_lower, K_voicemail) THEN VOICEMAIL
        ELSE IF Contains(reason_lower, K_error) THEN FAILED
        ELSE IF Contains(reason_lower, K_silence) THEN COMPLETED
        ELSE IF current_status \in TERMINAL_STATUSES THEN current_status
        ELSE COMPLETED

----------------------------------------------------------------------------
(* The Call row (calls/models.py).  The contact, script, assistant and     *)
(* phone-line references and `outcome` are written by no operation below   *)
(* after the insert and are left out of the row.                           *)

CallFields ==
    {"user", "status", "vapi_call_id", "transcript", "summary", "analysis",
     "started_at", "ended_at", "duration_seconds", "metadata", "error_message",
     "created_at", "updated_at"}

\* Call.objects.create(user=..., status=PENDING, metadata=metadata)
NewCall(user, metadata, t) ==
    [user |-> user, status |-> PENDING, vapi_call_id |-> None,
     transcript |-> "", summary |-> <<>>, analysis |-> <<>>,
     started_at |-> None, ended_at |-> None, duration_seconds |-> None,
     metadata |-> metadata, error_message |-> "",
     created_at |-> t, updated_at |-> t]

\* a save that writes nothing
Save_nothing(row, call, update_fields, t) == row

\* Model.save(update_fields=...): only the listed columns are written, and
\* updated_at (auto_now) takes the current time when it is listed.
Save(row, call, update_fields, t) ==
    [f \in CallFields |->
        IF InSeq(f, update_fields)
        THEN (IF f = "updated_at" THEN t ELSE call[f])
        ELSE row[f]]

\* dict.get(key), <<>> when the key is absent
DictGet(d, key) == IF key \in DOMAIN d THEN d[key] ELSE <<>>

\* an assignment that forgets the other keys
DictSet_fresh(d, key, value) == (key :> value)

\* d[key] = value
DictSet(d, key, value) == (key :> value) @@ d

\* django.utils.dateparse.parse_datetime: an ISO-8601 string is <<t>> with
\* t >= 0 the instant it denotes; <<t>> with t < 0 is a string that is not
\* ISO-8601, for which parse_datetime returns None.
parse_datetime(value) == IF value[1] >= 0 THEN Some(value[1]) ELSE None

\* a parser that reads no timestamp
parse_ts_none(value) == None

\* webhook.py _parse_ts
parse_ts(value) == IF value = None THEN None ELSE parse_datetime(value)

\* max(0, int((ended_at - started_at).total_seconds()))
DurationSeconds(started_at, ended_at) ==
    LET delta == ended_at[1] - started_at[1]
    IN  IF delta > 0 THEN delta ELSE 0

\* not call.duration_seconds
DurationFalsy(d) == d = None \/ d = Some(0)

\* the loop over artifact.structuredOutputs of _extract_summary
RECURSIVE ScanOutputs(_, _)
ScanOutputs(outputs, fallback) ==
    IF outputs = <<>> THEN fallback
    ELSE LET entry == Head(outputs)
             result == Strip(entry.result)
             name == Lower(entry.name)
         IN  IF result = <<>> THEN ScanOutputs(Tail(outputs), fallback)
             ELSE IF Contains(name, K_summary) THEN result
             ELSE ScanOutputs(Tail(outputs),
                              IF fallback = <<>> THEN result ELSE fallback)

\* calls.py _extract_summary
extract_summary(vapi_data, artifact) ==
    LET s1 == Strip(vapi_data.summary)
        s2 == Strip(DictGet(vapi_data.analysis, "summary"))
    IN  IF s1 # <<>> THEN s1
        ELSE IF s2 # <<>> THEN s2
        ELSE ScanOutputs(artifact.structuredOutputs, <<>>)

\* webhook.py _extract_summary_from_webhook
extract_summary_from_webhook(message, artifact) ==
    LET s1 == Strip(message.summary)
        s2 == Strip(DictGet(message.analysis, "summary"))
    IN  IF s1 # <<>> THEN s1
        ELSE IF s2 # <<>> THEN s2
        ELSE ScanOutputs(artifact.structuredOutputs, <<>>)

\* merged_analysis of both reconcilers
MergeAnalysis(analysis_obj, structured_outputs) ==
    LET m1 == IF analysis_obj # <<>> THEN analysis_obj ELSE <<>>
    IN  IF structured_outputs # <<>>
        THEN DictSet(m1, "structuredOutputs", structured_outputs)
        ELSE m1

\* enriched_meta of both reconcilers, from the values already selected
EnrichMeta(metadata, recording_url, stereo_url, msgs, cost, cost_breakdown) ==
    LET m1 == IF recording_url # "" THEN DictSet(metadata, "recordingUrl", recording_url)
              ELSE metadata
        m2 == IF stereo_url # "" THEN DictSet(m1, "stereoRecordingUrl", stereo_url)
              ELSE m1
        m3 == IF msgs # <<>> THEN DictSet(m2, "messages", msgs) ELSE m2
        m4 == IF cost # None THEN DictSet(m3, "cost", cost[1]) ELSE m3
    IN  IF cost_breakdown # <<>> THEN DictSet(m4, "costBreakdown", cost_breakdown)
        ELSE m4

\* `a or b` on strings
OrStr(a, b) == IF a # "" THEN a ELSE b

\* `a or b` on sequences and dicts
OrSeq(a, b) == IF a # <<>> THEN a ELSE b

\* a reconciler that ignores the guard
reconcile_unguarded(current, new) == TRUE

\* the guard as _reconcile_call_from_vapi calls it
ReconcileGuard(current, new) == is_valid_status_transition(current, new)

\* a reconciler that overwrites content already present
KeepFirst_overwrite(old_is_empty) == TRUE

\* `and not call.<field>`: a content field is written only when it is empty
KeepFirst(old_is_empty) == old_is_empty

\* the candidate status of _reconcile_call_from_vapi
pull_new_status(call, vapi_data) ==
    LET vapi_status == vapi_data.status
    IN  IF vapi_status = "ended"
        THEN calls_map_ended_reason(vapi_data.endedReason, call.status)
        ELSE OrStr(vapi_status, call.status)

\* calls.py _reconcile_call_from_vapi: the call after the in-memory
\* mutation and the update_fields list it returns
reconcile_call_from_vapi(call, vapi_data) ==
    LET artifact == vapi_data.artifact
        analysis_obj == vapi_data.analysis
        new_status == pull_new_status(call, vapi_data)
    IN  IF ~ReconcileGuard(call.status, new_status)
        THEN [call |-> call, update_fields |-> <<>>]
        ELSE
        LET started == IF vapi_data.startedAt # None
                       THEN parse_datetime(vapi_data.startedAt) ELSE None
            setStarted == started # None /\ KeepFirst(call.started_at = None)
            started_at == IF setStarted THEN started ELSE call.started_at
            ended == IF vapi_data.endedAt # None
                     THEN parse_datetime(vapi_data.endedAt) ELSE None
            setEnded == ended # None /\ KeepFirst(call.ended_at = None)
            ended_at == IF setEnded THEN ended ELSE call.ended_at
            transcript == OrStr(vapi_data.transcript, artifact.transcript)
            setTranscript == transcript # "" /\ KeepFirst(call.transcript = "")
            summary == extract_summary(vapi_data, artifact)
            setSummary == summary # <<>> /\ KeepFirst(call.summary = <<>>)
            merged_analysis == MergeAnalysis(analysis_obj, artifact.structuredOutputs)
            setAnalysis == merged_analysis # <<>> /\ KeepFirst(call.analysis = <<>>)
            enriched_meta ==
                EnrichMeta(call.metadata, vapi_data.recordingUrl,
                           vapi_data.stereoRecordingUrl, vapi_data.messages,
                           vapi_data.cost, vapi_data.costBreakdown)
            setMeta == enriched_meta # call.metadata
            setDuration == started_at # None /\ ended_at # None
                           /\ DurationFalsy(call.duration_seconds)
        IN  [call |->
                [call EXCEPT
                    !.status = new_status,
                    !.started_at = started_at,
                    !.ended_at = ended_at,
                    !.transcript = IF setTranscript THEN transcript ELSE @,
                    !.summary = IF setSummary THEN summary ELSE @,
                    !.analysis = IF setAnalysis THEN merged_analysis ELSE @,
                    !.metadata = IF setMeta THEN enriched_meta ELSE @,
                    !.duration_seconds =
                        IF setDuration
                        THEN Some(DurationSeconds(started_at, ended_at)) ELSE @],
             update_fields |->
                <<"status", "updated_at">>
                \o (IF setStarted THEN <<"started_at">> ELSE <<>>)
                \o (IF setEnded THEN <<"ended_at">> ELSE <<>>)
                \o (IF setTranscript THEN <<"transcript">> ELSE <<>>)
                \o (IF setSummary THEN <<"summary">> ELSE <<>>)
                \o (IF setAnalysis THEN <<"analysis">> ELSE <<>>)
                \o (IF setMeta THEN <<"metadata">> ELSE <<>>)
                \o (IF setDuration THEN <<"duration_seconds">> ELSE <<>>)]

\* a handler that moves the call one step up its lifecycle on every event
status_update_on_stepping(call, message) ==
    [call |->
        [call EXCEPT
            !.status = CASE @ = PENDING -> QUEUED
                         [] @ = QUEUED -> RINGING
                         [] @ = RINGING -> IN_PROGRESS
                         [] OTHER -> COMPLETED],
     update_fields |-> <<"status", "updated_at">>,
     saved |-> TRUE]

\* webhook.py _handle_status_update after the call has been resolved:
\* the call in memory, the update_fields and whether call.save() ran
status_update_on(call, message) ==
    LET new_status == VapiStatusMapGet(message.status)
    IN  IF ~is_valid_transition(call.status, new_status)
        THEN [call |-> call, update_fields |-> <<>>, saved |-> FALSE]
        ELSE
        LET setStarted == new_status = IN_PROGRESS /\ call.started_at = None
        IN  [call |->
                [call EXCEPT
                    !.status = new_status,
                    !.started_at = IF setStarted THEN parse_ts(message.timestamp) ELSE @],
             update_fields |->
                <<"status", "updated_at">>
                \o (IF setStarted THEN <<"started_at">> ELSE <<>>),
             saved |-> TRUE]

\* webhook.py _handle_end_of_call_report after the call has been resolved
end_of_call_report_on(call, message) ==
    LET artifact == message.artifact
        call_data == message.call
        new_status == webhook_map_ended_reason(message.endedReason, call.status)
        setStatus == new_status # call.status
        transcript == OrStr(message.transcript, artifact.transcript)
        setTranscript == transcript # "" /\ KeepFirst(call.transcript = "")
        summary == extract_summary_from_webhook(message, artifact)
        setSummary == summary # <<>> /\ KeepFirst(call.summary = <<>>)
        analysis_obj == OrSeq(message.analysis, call_data.analysis)
        merged_analysis == MergeAnalysis(analysis_obj, artifact.structuredOutputs)
        setAnalysis == merged_analysis # <<>> /\ KeepFirst(call.analysis = <<>>)
        enriched_meta ==
            EnrichMeta(call.metadata,
                       OrStr(message.recordingUrl, call_data.recordingUrl),
                       OrStr(message.stereoRecordingUrl, call_data.stereoRecordingUrl),
                       OrSeq(message.messages, call_data.messages),
                       IF call_data.cost # None THEN call_data.cost ELSE message.cost,
                       OrSeq(call_data.costBreakdown, message.costBreakdown))
        setMeta == enriched_meta # call.metadata
        started == parse_ts(call_data.startedAt)
        setStarted == started # None /\ KeepFirst(call.started_at = None)
        started_at == IF setStarted THEN started ELSE call.started_at
        ended == parse_ts(call_data.endedAt)
        setEnded == ended # None /\ KeepFirst(call.ended_at = None)
        ended_at == IF setEnded THEN ended ELSE call.ended_at
        setDuration == started_at # None /\ ended_at # None
                       /\ DurationFalsy(call.duration_seconds)
    IN  [call |->
            [call EXCEPT
                !.status = new_status,
                !.transcript = IF setTranscript THEN transcript ELSE @,
                !.summary = IF setSummary THEN summary ELSE @,
                !.analysis = IF setAnalysis THEN merged_analysis ELSE @,
                !.metadata = IF setMeta THEN enriched_meta ELSE @,
                !.started_at = started_at,
                !.ended_at = ended_at,
                !.duration_seconds =
                    IF setDuration
                    THEN Some(DurationSeconds(started_at, ended_at)) ELSE @],
         update_fields |->
            <<"updated_at">>
            \o (IF setStatus THEN <<"status">> ELSE <<>>)
            \o (IF setTranscript THEN <<"transcript">> ELSE <<>>)
            \o (IF setSummary THEN <<"summary">> ELSE <<>>)
            \o (IF setAnalysis THEN <<"analysis">> ELSE <<>>)
            \o (IF setMeta THEN <<"metadata">> ELSE <<>>)
            \o (IF setStarted THEN <<"started_at">> ELSE <<>>)
            \o (IF setEnded THEN <<"ended_at">> ELSE <<>>)
            \o (IF setDuration THEN <<"duration_seconds">> ELSE <<>>),
         saved |-> TRUE]

----------------------------------------------------------------------------
(* Provider payloads the operations are exercised with                     *)

R_customer_busy == <<"c", "u", "s", "t", "o", "m", "e", "r", "-", "b", "u", "s", "y">>
R_did_not_answer == <<"c", "u", "s", "t", "o", "m", "e", "r", "-", "d", "i", "d", "-", "n", "o", "t", "-", "a", "n", "s", "w", "e", "r">>
R_assistant_error == <<"a", "s", "s", "i", "s", "t", "a", "n", "t", "-", "e", "r", "r", "o", "r">>
R_customer_ended == <<"c", "u", "s", "t", "o", "m", "e", "r", "-", "e", "n", "d", "e", "d", "-", "c", "a", "l", "l">>
N_call_summary == <<"C", "a", "l", "l", " ", "S", "u", "m", "m", "a", "r", "y">>
N_sentiment == <<"s", "e", "n", "t", "i", "m", "e", "n", "t">>

\* what a provider snapshot can carry besides status and end reason
NoContent ==
    [transcript |-> "", artTranscript |-> "", summary |-> <<>>, analysis |-> <<>>,
     structuredOutputs |-> <<>>, recordingUrl |-> "", stereoRecordingUrl |-> "",
     messages |-> <<>>, cost |-> None, costBreakdown |-> <<>>,
     startedAt |-> None, endedAt |-> None]

ContentA ==
    [NoContent EXCEPT
        !.transcript = "tA",
        !.summary = <<" ", "s", "A", " ">>,
        !.analysis = [successEvaluation |-> "true"],
        !.recordingUrl = "recA",
        !.cost = Some(0),
        !.startedAt = Some(10),
        !.endedAt = Some(13)]

ContentB ==
    [NoContent EXCEPT
        !.artTranscript = "tB",
        !.structuredOutputs =
            << [name |-> N_sentiment, result |-> <<"o", "k">>],
               [name |-> N_call_summary, result |-> <<"s", "B">>] >>,
        !.recordingUrl = "recB",
        !.messages = <<"m1">>,
        !.startedAt = Some(20),
        !.endedAt = Some(15)]

\* a snapshot that carries endedAt and no startedAt
ContentEnded == [NoContent EXCEPT !.endedAt = Some(13)]

\* a snapshot that carries startedAt and no endedAt
ContentStarted == [NoContent EXCEPT !.startedAt = Some(10)]

\* GET /call response
PullResponse(status, reason, c) ==
    [status |-> status, endedReason |-> reason,
     startedAt |-> c.startedAt, endedAt |-> c.endedAt,
     transcript |-> c.transcript,
     artifact |-> [transcript |-> c.artTranscript,
                   structuredOutputs |-> c.structuredOutputs],
     summary |-> c.summary, analysis |-> c.analysis,
     recordingUrl |-> c.recordingUrl, stereoRecordingUrl |-> c.stereoRecordingUrl,
     messages |-> c.messages, cost |-> c.cost, costBreakdown |-> c.costBreakdown]

\* message of an end-of-call-report webhook
EndOfCallMessage(reason, c) ==
    [endedReason |-> reason,
     transcript |-> c.transcript, summary |-> c.summary, analysis |-> c.analysis,
     artifact |-> [transcript |-> c.artTranscript,
                   structuredOutputs |-> c.structuredOutputs],
     recordingUrl |-> c.recordingUrl, stereoRecordingUrl |-> "",
     messages |-> c.messages, cost |-> None, costBreakdown |-> <<>>,
     call |-> [analysis |-> <<>>, recordingUrl |-> "",
               stereoRecordingUrl |-> c.stereoRecordingUrl, messages |-> <<>>,
               cost |-> c.cost, costBreakdown |-> c.costBreakdown,
               startedAt |-> c.startedAt, endedAt |-> c.endedAt]]

\* message of a status-update webhook
StatusMessage(status, timestamp) == [status |-> status, timestamp |-> timestamp]

StatusMessages ==
    << StatusMessage("scheduled", Some(5)),
       StatusMessage("queued", Some(5)),
       StatusMessage("ringing", Some(5)),
       StatusMessage("in-progress", Some(5)),
       StatusMessage("forwarding", None),
       StatusMessage("ended", Some(5)) >>

EndOfCallMessages ==
    << EndOfCallMessage(R_customer_ended, NoContent),
       EndOfCallMessage(R_customer_busy, NoContent),
       EndOfCallMessage(R_assistant_error, NoContent),
       EndOfCallMessage(<<>>, NoContent),
       EndOfCallMessage(R_customer_ended, ContentA),
       EndOfCallMessage(R_customer_ended, ContentB),
       EndOfCallMessage(R_customer_ended, ContentEnded),
       EndOfCallMessage(R_customer_ended, ContentStarted) >>

PullResponses ==
    << PullResponse("queued", <<>>, NoContent),
       PullResponse("ringing", <<>>, NoContent),
       PullResponse("in-progress", <<>>, NoContent),
       PullResponse("forwarding", <<>>, NoContent),
       PullResponse("", <<>>, NoContent),
       PullResponse("ended", R_customer_ended, NoContent),
       PullResponse("ended", R_did_not_answer, NoContent),
       PullResponse("ringing", <<>>, ContentA),
       PullResponse("ended", R_customer_ended, ContentA),
       PullResponse("ended", R_customer_busy, ContentB),
       PullResponse("ringing", <<>>, ContentEnded),
       PullResponse("in-progress", <<>>, ContentStarted),
       PullResponse("ended", R_customer_ended, ContentEnded) >>

\* the payloads that carry a status or an end reason and nothing else
PlainEndOfCall == 1..4

PlainPull == 1..7

\* the payloads whose timestamps come both or not at all
PairedEndOfCall == 1..6

PairedPull == 1..10

\* call.id of a webhook payload: missing, "", or an id the provider issues
\* (no call has it until create_call has stored it)
WebhookCallIds(cap) == {None, EmptyId} \cup {Some(i) : i \in 1..cap}

\* metadata argument of create_call
CreateMetadata == <<None, [source |-> "crm"]>>

----------------------------------------------------------------------------
(* State                                                                   *)

NoLast ==
    [op |-> "init", id |-> 0, result |-> "", update_fields |-> <<>>,
     saved |-> FALSE, snap |-> 0, user |-> 0, requests |-> <<>>,
     returned |-> <<>>, fetched |-> <<>>, response |-> <<>>, stop |-> "",
     event |-> <<>>]

Init ==
    /\ calls = <<>>
    /\ now = 0
    /\ inflight = <<>>
    /\ last = NoLast
    /\ probe = <<>>

Exists(id) == id \in 1..Len(calls)

\* a lookup that resolves every provider id to the first call
find_by_vapi_call_id_first(vapi_call_id) == IF calls = <<>> THEN {} ELSE {1}

\* calls.py find_by_vapi_call_id: the ids of the rows with that provider id
find_by_vapi_call_id(vapi_call_id) ==
    {i \in 1..Len(calls) : calls[i].vapi_call_id = vapi_call_id}

\* a count that does not look at the owner
get_active_call_count_any_owner(user) ==
    Cardinality({i \in 1..Len(calls) : calls[i].status \in ACTIVE_STATUSES})

\* calls.py _get_active_call_count
get_active_call_count(user) ==
    Cardinality({i \in 1..Len(calls) :
                    calls[i].user = user /\ calls[i].status \in ACTIVE_STATUSES})

\* what the last operation did: the call it resolved (0 when none), its
\* outcome, the update_fields list and whether it saved, and the snapshot a
\* reconciler was run on (0 when none was); for create_call the user it ran
\* for; the requests it sent to the provider, in order; for get_call
\* the call object it returned; for sync_stale_queued_calls the outcome
\* of the provider lookup of each call it fetched; for a webhook the
\* response dict its handler returned and the call.id the event carried;
\* and for cancel_call the call its get_call returned and the outcome of
\* the stop request it sent
Record(op, id, result, r, snap) ==
    [op |-> op, id |-> id, result |-> result, update_fields |-> r.update_fields,
     saved |-> r.saved,
     snap |-> IF id # 0 /\ result \in {"applied", "rejected"} THEN snap ELSE 0,
     user |-> 0, requests |-> <<>>, returned |-> <<>>, fetched |-> <<>>,
     response |-> <<>>, stop |-> "", event |-> <<>>]

\* the requests get_call sends: one lookup when it syncs
GetCallRequests(g) == IF g.result = "not_synced" THEN <<>> ELSE <<"get_call">>

Nothing == [update_fields |-> <<>>, saved |-> FALSE]

\* a handler that reports a failure to the provider
Ack_failure == [ok |-> FALSE]

\* the response of every return of the webhook handlers: {"ok": True}
Ack == [ok |-> TRUE]

\* a webhook handler returning
Respond(op, id, result, r, snap) ==
    [Record(op, id, result, r, snap) EXCEPT !.response = Ack]

\* a webhook handler returning from the event whose call.id is vapi_call_id
RespondTo(vapi_call_id, op, id, result, r, snap) ==
    [Respond(op, id, result, r, snap) EXCEPT !.event = vapi_call_id]

----------------------------------------------------------------------------
(* Operations, each executed atomically                                    *)

\* a create_call that inserts the pending row before it validates
RaiseAfterInsert(user, error) ==
    /\ calls' = Append(calls, NewCall(user, None, now))
    /\ last' = [Record("create_call", 0, error, Nothing, 0) EXCEPT !.user = user]

\* create_call raising an admission or lookup error: the checks come before
\* the insert and before the provider request
RaiseBeforeInsert(user, error) ==
    /\ UNCHANGED calls
    /\ last' = [Record("create_call", 0, error, Nothing, 0) EXCEPT !.user = user]

\* vapi_response.get("id") of create_call: the id the provider issued for the
\* call, None when the response carries no id, or ""
ResponseId(response, id) ==
    CASE response = "id" -> Some(id)
      [] response = "no_id" -> None
      [] OTHER -> EmptyId

\* the unique constraint on vapi_call_id: another row holds the value (NULLs
\* never collide)
UniqueViolation(vapi_call_id) ==
    vapi_call_id # None /\ find_by_vapi_call_id(vapi_call_id) # {}

\* create_call from the insert of the pending row to the save that follows
\* the provider's answer: the row becomes queued with the provider id, or
\* failed when the provider request or that save raises
InsertAndDial(user, provider_ok, metadata, cap, response) ==
    /\ Len(calls) < cap
    /\ LET id == Len(calls) + 1
           row == NewCall(user, metadata, now)
       IN  IF provider_ok /\ UniqueViolation(ResponseId(response, id))
           THEN /\ calls' = Append(calls,
                       Save(row,
                            [row EXCEPT !.status = FAILED,
                                        !.error_message = "IntegrityError"],
                            <<"status", "error_message", "updated_at">>, now))
                /\ last' = [Record("create_call", id, "IntegrityError",
                                   [update_fields |->
                                       <<"status", "error_message", "updated_at">>,
                                    saved |-> TRUE], 0)
                                EXCEPT !.user = user,
                                       !.requests = <<"create_outbound_call">>]
           ELSE IF provider_ok
           THEN /\ calls' = Append(calls,
                       Save(row,
                            [row EXCEPT
                                !.vapi_call_id = ResponseId(response, id),
                                !.status = QUEUED],
                            <<"vapi_call_id", "status", "updated_at">>, now))
                /\ last' = [Record("create_call", id, "created",
                                   [update_fields |->
                                       <<"vapi_call_id", "status", "updated_at">>,
                                    saved |-> TRUE], 0)
                                EXCEPT !.user = user,
                                       !.requests = <<"create_outbound_call">>]
           ELSE /\ calls' = Append(calls,
                       Save(row,
                            [row EXCEPT !.status = FAILED,
                                        !.error_message = "VapiAPIError"],
                            <<"status", "error_message", "updated_at">>, now))
                /\ last' = [Record("create_call", id, "VapiAPIError",
                                   [update_fields |->
                                       <<"status", "error_message", "updated_at">>,
                                    saved |-> TRUE], 0)
                                EXCEPT !.user = user,
                                       !.requests = <<"create_outbound_call">>]

\* calls.py create_call
CreateCall(user, contact_found, script_found, provider_ok, metadata, cap, response) ==
    /\ UNCHANGED <<now, inflight, probe>>
    /\ IF get_active_call_count(user) >= MAX_PENDING_CALLS
       THEN RaiseBeforeInsert(user, "MaxActiveCallsError")
       ELSE IF ~contact_found
       THEN RaiseBeforeInsert(user, "ContactNotFoundError")
       ELSE IF ~script_found
       THEN RaiseBeforeInsert(user, "ScriptNotFoundError")
       ELSE InsertAndDial(user, provider_ok, metadata, cap, response)

\* webhook.py _handle_status_update
HandleStatusUpdate(vapi_call_id, k) ==
    LET message == StatusMessages[k]
        new_status == VapiStatusMapGet(message.status)
        found == find_by_vapi_call_id(vapi_call_id)
    IN  /\ UNCHANGED <<now, inflight, probe>>
        /\ IF new_status = ""
           THEN /\ UNCHANGED calls
                /\ last' = RespondTo(vapi_call_id, "status-update", 0, "unmapped", Nothing, k)
           ELSE IF ~HasProviderId(vapi_call_id)
           THEN /\ UNCHANGED calls
                /\ last' = RespondTo(vapi_call_id, "status-update", 0, "no_id", Nothing, k)
           ELSE IF found = {}
           THEN /\ UNCHANGED calls
                /\ last' = RespondTo(vapi_call_id, "status-update", 0, "unknown_id", Nothing, k)
           ELSE \E id \in found :
                LET r == status_update_on(calls[id], message)
                IN  /\ calls' = IF r.saved
                                THEN [calls EXCEPT
                                        ![id] = Save(@, r.call, r.update_fields, now)]
                                ELSE calls
                    /\ last' = RespondTo(vapi_call_id, "status-update", id,
                                      IF r.saved THEN "applied" ELSE "rejected",
                                      r, k)

\* webhook.py _handle_end_of_call_report
HandleEndOfCallReport(vapi_call_id, k) ==
    LET message == EndOfCallMessages[k]
        found == find_by_vapi_call_id(vapi_call_id)
    IN  /\ UNCHANGED <<now, inflight, probe>>
        /\ IF ~HasProviderId(vapi_call_id)
           THEN /\ UNCHANGED calls
                /\ last' = RespondTo(vapi_call_id, "end-of-call-report", 0, "no_id", Nothing, k)
           ELSE IF found = {}
           THEN /\ UNCHANGED calls
                /\ last' = RespondTo(vapi_call_id, "end-of-call-report", 0, "unknown_id", Nothing, k)
           ELSE \E id \in found :
                LET r == end_of_call_report_on(calls[id], message)
                IN  /\ calls' = [calls EXCEPT
                                    ![id] = Save(@, r.call, r.update_fields, now)]
                    /\ last' = RespondTo(vapi_call_id, "end-of-call-report", id, "applied",
                                      r, k)

\* webhook.py _handle_ignored
HandleIgnored(vapi_call_id) ==
    /\ UNCHANGED <<calls, now, inflight, probe>>
    /\ last' = RespondTo(vapi_call_id, "ignored", 0, "ignored", Nothing, 0)

\* webhook.py handle_webhook: dispatch on the event type
HandleWebhook(cfg) ==
    \E vapi_call_id \in WebhookCallIds(cfg.calls) :
        \/ \E k \in cfg.status : HandleStatusUpdate(vapi_call_id, k)
        \/ \E k \in cfg.eoc : HandleEndOfCallReport(vapi_call_id, k)
        \/ HandleIgnored(vapi_call_id)

\* outcome of vapi_service.get_call: 0 is a provider error, k > 0 the
\* response PullResponses[k]
Fetches(cfg) == {0} \cup cfg.pull

\* the pull channel's use of the reconciler: reconcile, then save when the
\* returned update_fields list is not empty
ReconcileAndSave(row, call, k, t) ==
    LET r == reconcile_call_from_vapi(call, PullResponses[k])
        saved == r.update_fields # <<>>
    IN  [row |-> IF saved THEN Save(row, r.call, r.update_fields, t) ELSE row,
         call |-> IF saved THEN [r.call EXCEPT !.updated_at = t] ELSE r.call,
         update_fields |-> r.update_fields,
         saved |-> saved,
         result |-> IF saved THEN "applied" ELSE "rejected"]

\* get_call's save inside its try block, r being the reconciliation with
\* its save done: when the save raises, the handler logs and falls through,
\* the row stays as it was and the call object stays as the reconciler and
\* the auto_now pre-save mutated it.
SaveInTry(row, r, save_ok) ==
    IF r.saved /\ ~save_ok
    THEN [row |-> row, call |-> r.call, update_fields |-> r.update_fields,
          saved |-> FALSE, result |-> "save_failed"]
    ELSE r

\* calls.py get_call for a row the user owns: the row as persisted and the
\* call object returned.  A lookup that raises is caught by the same handler.
get_call(row, fetch, save_ok, t) ==
    IF row.status \in ACTIVE_STATUSES /\ HasProviderId(row.vapi_call_id)
    THEN IF fetch = 0
         THEN [row |-> row, call |-> row, update_fields |-> <<>>, saved |-> FALSE,
               result |-> "fetch_failed"]
         ELSE SaveInTry(row, ReconcileAndSave(row, row, fetch, t), save_ok)
    ELSE [row |-> row, call |-> row, update_fields |-> <<>>, saved |-> FALSE,
          result |-> "not_synced"]

\* the detail view once get_call returned g: the row is as get_call left it
\* and the caller receives g.call
GetCallAfter(id, g, fetch) ==
    /\ calls' = [calls EXCEPT ![id] = g.row]
    /\ last' = [Record("get_call", id, g.result, g, fetch)
                    EXCEPT !.requests = GetCallRequests(g),
                           !.returned = g.call]

\* calls.py get_call as an operation (the detail view)
GetCall(id, user, fetch, save_ok) ==
    /\ UNCHANGED <<now, inflight, probe>>
    /\ IF ~Exists(id) \/ (Exists(id) /\ calls[id].user # user)
       THEN /\ UNCHANGED calls
            /\ last' = Record("get_call", 0, "CallNotFoundError", Nothing, fetch)
       ELSE GetCallAfter(id, get_call(calls[id], fetch, save_ok, now), fetch)

\* sync_call_status after its get_call returned g
SyncCallStatusAfter(id, g, fetch2) ==
    IF ~HasProviderId(g.call.vapi_call_id)
    THEN /\ calls' = [calls EXCEPT ![id] = g.row]
         /\ last' = [Record("sync_call_status", id,
                            "CallNotCancellableError", Nothing, fetch2)
                         EXCEPT !.requests = GetCallRequests(g)]
    ELSE IF fetch2 = 0
    THEN /\ calls' = [calls EXCEPT ![id] = g.row]
         /\ last' = [Record("sync_call_status", id, "VapiAPIError",
                            Nothing, fetch2)
                         EXCEPT !.requests =
                             GetCallRequests(g) \o <<"get_call">>]
    ELSE LET r == ReconcileAndSave(g.row, g.call, fetch2, now)
         IN  /\ calls' = [calls EXCEPT ![id] = r.row]
             /\ last' = [Record("sync_call_status", id, r.result, r,
                                fetch2)
                             EXCEPT !.requests =
                                 GetCallRequests(g) \o <<"get_call">>]

\* calls.py sync_call_status
SyncCallStatus(id, user, fetch1, save_ok, fetch2) ==
    /\ UNCHANGED <<now, inflight, probe>>
    /\ IF ~Exists(id) \/ (Exists(id) /\ calls[id].user # user)
       THEN /\ UNCHANGED calls
            /\ last' = Record("sync_call_status", 0, "CallNotFoundError",
                              Nothing, fetch2)
       ELSE SyncCallStatusAfter(id, get_call(calls[id], fetch1, save_ok, now), fetch2)

\* a cancel_call that sends the stop request and leaves the status to the
\* provider's events
CancelCallAfter_waits(id, g, stop_ok) ==
    /\ calls' = [calls EXCEPT ![id] = g.row]
    /\ last' = [Record("cancel_call", id,
                       IF stop_ok THEN "cancelled" ELSE "VapiAPIError", Nothing, 0)
                    EXCEPT !.requests = GetCallRequests(g) \o <<"end_call">>,
                           !.returned = g.call,
                           !.stop = IF stop_ok THEN "ok" ELSE "failed"]

\* cancel_call after its get_call returned g
CancelCallAfter(id, g, stop_ok) ==
    IF g.call.status \in TERMINAL_STATUSES \/ ~HasProviderId(g.call.vapi_call_id)
    THEN /\ calls' = [calls EXCEPT ![id] = g.row]
         /\ last' = [Record("cancel_call", id, "CallNotCancellableError",
                            Nothing, 0)
                         EXCEPT !.requests = GetCallRequests(g),
                                !.returned = g.call]
    ELSE IF ~stop_ok
    THEN /\ calls' = [calls EXCEPT ![id] = g.row]
         /\ last' = [Record("cancel_call", id, "VapiAPIError", Nothing, 0)
                         EXCEPT !.requests =
                                    GetCallRequests(g) \o <<"end_call">>,
                                !.returned = g.call,
                                !.stop = "failed"]
    ELSE /\ calls' = [calls EXCEPT
                        ![id] = Save(g.row,
                                     [g.call EXCEPT !.status = CANCELLED],
                                     <<"status", "updated_at">>, now)]
         /\ last' = [Record("cancel_call", id, "cancelled",
                            [update_fields |-> <<"status", "updated_at">>,
                             saved |-> TRUE], 0)
                         EXCEPT !.requests =
                                    GetCallRequests(g) \o <<"end_call">>,
                                !.returned = g.call,
                                !.stop = "ok"]

\* calls.py cancel_call
CancelCall(id, user, fetch, save_ok, stop_ok) ==
    /\ UNCHANGED <<now, inflight, probe>>
    /\ IF ~Exists(id) \/ (Exists(id) /\ calls[id].user # user)
       THEN /\ UNCHANGED calls
            /\ last' = Record("cancel_call", 0, "CallNotFoundError", Nothing, 0)
       ELSE CancelCallAfter(id, get_call(calls[id], fetch, save_ok, now), stop_ok)

\* a selection that does not look at the status
StaleCalls_any_status ==
    {i \in 1..Len(calls) :
        calls[i].created_at < now - STALE_CALL_THRESHOLD_SECONDS}

\* the rows mark_stale_calls selects
StaleCalls ==
    {i \in 1..Len(calls) :
        /\ calls[i].status \in STALE_ELIGIBLE_STATUSES
        /\ calls[i].created_at < now - STALE_CALL_THRESHOLD_SECONDS}

\* calls.py mark_stale_calls: a queryset update, which writes exactly the
\* two columns it names
MarkStaleCalls ==
    /\ UNCHANGED <<now, inflight, probe>>
    /\ calls' = [i \in 1..Len(calls) |->
                    IF i \in StaleCalls
                    THEN [calls[i] EXCEPT
                            !.status = FAILED,
                            !.error_message = "Call timed out"]
                    ELSE calls[i]]
    /\ last' = [NoLast EXCEPT !.op = "mark_stale_calls",
                              !.snap = Cardinality(StaleCalls)]

\* a selection that does not look at the provider id
StaleQueuedCalls_any_id ==
    {i \in 1..Len(calls) :
        /\ calls[i].status = QUEUED
        /\ calls[i].created_at < now - STALE_QUEUED_SYNC_SECONDS}

\* the rows sync_stale_queued_calls selects
StaleQueuedCalls ==
    {i \in 1..Len(calls) :
        /\ calls[i].status = QUEUED
        /\ calls[i].created_at < now - STALE_QUEUED_SYNC_SECONDS
        /\ HasProviderId(calls[i].vapi_call_id)}

\* a loop that a failed fetch ends
SweepReached_until_failure(fetch) ==
    {i \in StaleQueuedCalls : \A j \in StaleQueuedCalls : j < i => fetch[j] # 0}

\* the selected rows the loop of sync_stale_queued_calls gets to: a failed
\* fetch is logged and the loop continues with the next row
SweepReached(fetch) == StaleQueuedCalls

\* calls.py sync_stale_queued_calls: each selected row is fetched and
\* reconciled on its own; a failed fetch skips the row
SyncStaleQueuedCalls(fetch) ==
    LET res == [i \in SweepReached(fetch) |->
                    IF fetch[i] = 0
                    THEN [row |-> calls[i], saved |-> FALSE]
                    ELSE ReconcileAndSave(calls[i], calls[i], fetch[i], now)]
    IN  /\ UNCHANGED <<now, inflight, probe>>
        /\ calls' = [i \in 1..Len(calls) |->
                        IF i \in DOMAIN res THEN res[i].row ELSE calls[i]]
        /\ last' = [NoLast EXCEPT
                        !.op = "sync_stale_queued_calls",
                        !.snap = Cardinality({i \in DOMAIN res : res[i].saved}),
                        !.requests = [i \in 1..Cardinality(DOMAIN res) |->
                                         "get_call"],
                        !.fetched = [i \in DOMAIN res |-> fetch[i]]]

\* the clock advancing by step seconds, up to max
TickBy(step, max) ==
    /\ now + step <= max
    /\ now' = now + step
    /\ UNCHANGED <<calls, inflight, probe>>
    /\ last' = [NoLast EXCEPT !.op = "tick"]

\* the clock
Tick == TickBy(TickSeconds, MaxNow)

\* The operations over the users, call slots and payloads of cfg.  In
\* sync_call_status the fetch made by get_call fails or returns what the
\* second fetch returns.
OpsOn(cfg) ==
    \/ \E user \in cfg.users, contact_found, script_found, provider_ok \in BOOLEAN,
          m \in cfg.metadata, response \in cfg.ids :
            CreateCall(user, contact_found, script_found, provider_ok,
                       CreateMetadata[m], cfg.calls, response)
    \/ HandleWebhook(cfg)
    \/ \E id \in 1..cfg.calls, user \in cfg.users, fetch \in Fetches(cfg),
          save_ok \in cfg.save_ok :
            GetCall(id, user, fetch, save_ok)
    \/ \E id \in 1..cfg.calls, user \in cfg.users, fetch2 \in Fetches(cfg),
          save_ok \in cfg.save_ok :
         \E fetch1 \in {0, fetch2} : SyncCallStatus(id, user, fetch1, save_ok, fetch2)
    \/ \E id \in 1..cfg.calls, user \in cfg.users, fetch \in {0} \cup cfg.cancel,
          save_ok \in cfg.save_ok, stop_ok \in BOOLEAN :
            CancelCall(id, user, fetch, save_ok, stop_ok)
    \/ MarkStaleCalls
    \/ \E fetch \in [StaleQueuedCalls -> Fetches(cfg)] : SyncStaleQueuedCalls(fetch)

\* the operations, and the passing of time
NextOn(cfg) == OpsOn(cfg) \/ Tick

\* every operation, over every payload
SpecCfg ==
    [users |-> 1..NumUsers, calls |-> MaxCalls,
     metadata |-> {2},
     status |-> 1..Len(StatusMessages),
     eoc |-> PairedEndOfCall,
     pull |-> PairedPull,
     cancel |-> {1, 6},
     save_ok |-> {TRUE},
     ids |-> {"id"}]

Next == NextOn(SpecCfg)

Spec == Init /\ [][Next]_vars

\* Several calls of several owners within one instant: creation, the
\* webhooks (a status-update `ringing`, an end-of-call-report with no
\* reason) and cancellation, whose opportunistic lookup fails.
AdmitCfg ==
    [users |-> 1..AdmitUsers, calls |-> AdmitCalls,
     metadata |-> {1},
     status |-> {3},
     eoc |-> {4},
     pull |-> {},
     cancel |-> {}]

NextAdmit ==
    \/ \E user \in AdmitCfg.users, contact_found, script_found, provider_ok \in BOOLEAN :
            CreateCall(user, contact_found, script_found, provider_ok,
                       CreateMetadata[1], AdmitCfg.calls, "id")
    \/ HandleWebhook(AdmitCfg)
    \/ \E id \in 1..AdmitCfg.calls, user \in AdmitCfg.users, stop_ok \in BOOLEAN :
            CancelCall(id, user, 0, TRUE, stop_ok)

SpecAdmit == Init /\ [][NextAdmit]_vars

\* Reads of one call whose opportunistic sync can fail at the provider
\* lookup or at the save, between webhooks that move the call.
ReadCfg ==
    [users |-> {1}, calls |-> 1,
     metadata |-> {1},
     status |-> {4, 6},
     eoc |-> {2},
     pull |-> {1, 3, 8, 10},
     cancel |-> {1},
     save_ok |-> BOOLEAN,
     ids |-> {"id", "no_id", "empty_id"}]

NextRead == NextOn(ReadCfg)

SpecRead == Init /\ [][NextRead]_vars

\* The stale sweep over calls of several ages: creation, the status-update
\* webhooks, the sweep, and a clock fine enough for a call to be younger
\* than, exactly as old as, and older than the threshold.
SweepCfg ==
    [users |-> {1}, calls |-> SweepCalls,
     metadata |-> {1},
     status |-> {3, 4},
     eoc |-> {2},
     pull |-> {},
     cancel |-> {}]

NextSweep ==
    \/ \E provider_ok \in BOOLEAN :
            CreateCall(1, TRUE, TRUE, provider_ok, CreateMetadata[1], SweepCfg.calls,
                       "id")
    \/ HandleWebhook(SweepCfg)
    \/ MarkStaleCalls
    \/ TickBy(SweepTick, SweepMaxNow)

SpecSweep == Init /\ [][NextSweep]_vars

\* The scheduled poll sweep over calls of several ages and provider ids:
\* creation (the provider answering with an id, without one, or with an
\* empty one), the webhooks, the sweep with each lookup failing or
\* answering, and a clock that makes a call younger than, exactly as old
\* as, and older than the queued-sync threshold.
PollCfg ==
    [users |-> {1}, calls |-> PollCalls,
     metadata |-> {1},
     status |-> {3},
     eoc |-> {2},
     pull |-> {1, 2, 6},
     cancel |-> {},
     save_ok |-> {TRUE},
     ids |-> {"id", "no_id", "empty_id"}]

NextPoll ==
    \/ \E provider_ok \in BOOLEAN, response \in PollCfg.ids :
            CreateCall(1, TRUE, TRUE, provider_ok, CreateMetadata[1], PollCfg.calls,
                       response)
    \/ HandleWebhook(PollCfg)
    \/ \E fetch \in [StaleQueuedCalls -> Fetches(PollCfg)] : SyncStaleQueuedCalls(fetch)
    \/ TickBy(PollTick, PollMaxNow)

SpecPoll == Init /\ [][NextPoll]_vars

----------------------------------------------------------------------------
(* The webhook endpoint (calls/views/calls.py).  A secret and a header     *)
(* value are sequences of code points; "" is <<>>.  The configured secret  *)
(* and the header the provider's requests carry are fixed in the initial   *)
(* state, every pair of them being an initial state.                       *)

\* VAPI_WEBHOOK_SECRET: not configured, or "s"
WebhookSecrets == {<<>>, <<115>>}

\* request.META.get("HTTP_X_VAPI_SECRET", ""): no header, "s", "x", and a
\* header holding the byte 0xE9, which the server decodes to the character
\* U+00E9
SecretHeaders == {<<>>, <<115>>, <<120>>, <<233>>}

\* a str of ASCII characters only
IsAscii(s) == \A i \in 1..Len(s) : s[i] < 128

\* hmac.compare_digest on two str: it raises TypeError unless both hold
\* ASCII characters only
compare_digest(a, b) ==
    IF ~IsAscii(a) \/ ~IsAscii(b) THEN "TypeError"
    ELSE IF a = b THEN "equal" ELSE "different"

\* views/calls.py _verify_webhook_secret: "ok" when it returns, else the
\* exception it raises
verify_webhook_secret(expected, received) ==
    IF expected = <<>> THEN "ok"
    ELSE LET c == compare_digest(expected, received)
         IN  CASE c = "equal" -> "ok"
               [] c = "different" -> "WebhookAuthenticationError"
               [] OTHER -> c

\* the webhooks of one call
AuthCfg ==
    [users |-> {1}, calls |-> 1,
     metadata |-> {1},
     status |-> {3, 4, 6},
     eoc |-> {2, 5},
     pull |-> {},
     cancel |-> {},
     save_ok |-> {TRUE},
     ids |-> {"id"}]

InitAuth ==
    /\ calls = <<>>
    /\ now = 0
    /\ inflight = <<>>
    /\ last = NoLast
    /\ probe \in [secret : WebhookSecrets, received : SecretHeaders]

\* views/calls.py vapi_webhook: the secret is verified, then the payload is
\* handed to the dispatcher
VapiWebhook ==
    IF verify_webhook_secret(probe.secret, probe.received) = "ok"
    THEN HandleWebhook(AuthCfg)
    ELSE /\ UNCHANGED <<calls, now, inflight, probe>>
         /\ last' = [NoLast EXCEPT
                        !.op = "vapi_webhook",
                        !.result = verify_webhook_secret(probe.secret,
                                                         probe.received)]

NextAuth ==
    \/ \E provider_ok \in BOOLEAN :
            CreateCall(1, TRUE, TRUE, provider_ok, CreateMetadata[1], AuthCfg.calls,
                       "id")
    \/ VapiWebhook

SpecAuth == InitAuth /\ [][NextAuth]_vars

----------------------------------------------------------------------------
(* The two transition guards as pure functions: every pair of canonical    *)
(* statuses is an initial state, and the one action applies both guards.   *)

InitGuard ==
    /\ calls = <<>>
    /\ now = 0
    /\ inflight = <<>>
    /\ last = NoLast
    /\ probe \in [current : CallStatus, new : CallStatus,
                  done : {FALSE}, push : {FALSE}, pull : {FALSE}]

ApplyGuards ==
    /\ probe.done = FALSE
    /\ probe' = [probe EXCEPT
                    !.done = TRUE,
                    !.push = is_valid_transition(probe.current, probe.new),
                    !.pull = is_valid_status_transition(probe.current, probe.new)]
    /\ UNCHANGED <<calls, now, inflight, last>>

SpecGuard == InitGuard /\ [][ApplyGuards]_vars

----------------------------------------------------------------------------
(* The two copies of _map_ended_reason as pure functions: every end reason *)
(* below with every canonical current status is an initial state, and the  *)
(* one action applies both copies.  The reasons are, in order:             *)
(*   1 customer-busy                                                        *)
(*   2 customer-did-not-answer                                              *)
(*   3 silence-timed-out                                                    *)
(*   4 assistant-error                                                      *)
(*   5 voicemail                                                            *)
(*   6 customer-ended-call                                                  *)
(*   7 hangup                                                               *)
(*   8 (the empty string)                                                   *)
(*   9 Customer-Busy                                                        *)
(*   10 pipeline-error-customer-busy                                        *)
(*   11 twilio-no-answer                                                    *)
(*   12 VOICEMAIL-ERROR                                                     *)
(*   13 silence-error                                                       *)
(*   14 no-answer-voicemail                                                 *)
(*   15 line_busy-did-not-answer                                            *)

EndedReasons ==
    << <<"c", "u", "s", "t", "o", "m", "e", "r", "-", "b", "u", "s", "y">>,
       <<"c", "u", "s", "t", "o", "m", "e", "r", "-", "d", "i", "d", "-", "n", "o", "t", "-", "a", "n", "s", "w", "e", "r">>,
       <<"s", "i", "l", "e", "n", "c", "e", "-", "t", "i", "m", "e", "d", "-", "o", "u", "t">>,
       <<"a", "s", "s", "i", "s", "t", "a", "n", "t", "-", "e", "r", "r", "o", "r">>,
       <<"v", "o", "i", "c", "e", "m", "a", "i", "l">>,
       <<"c", "u", "s", "t", "o", "m", "e", "r", "-", "e", "n", "d", "e", "d", "-", "c", "a", "l", "l">>,
       <<"h", "a", "n", "g", "u", "p">>,
       <<>>,
       <<"C", "u", "s", "t", "o", "m", "e", "r", "-", "B", "u", "s", "y">>,
       <<"p", "i", "p", "e", "l", "i", "n", "e", "-", "e", "r", "r", "o", "r", "-", "c", "u", "s", "t", "o", "m", "e", "r", "-", "b", "u", "s", "y">>,
       <<"t", "w", "i", "l", "i", "o", "-", "n", "o", "-", "a", "n", "s", "w", "e", "r">>,
       <<"V", "O", "I", "C", "E", "M", "A", "I", "L", "-", "E", "R", "R", "O", "R">>,
       <<"s", "i", "l", "e", "n", "c", "e", "-", "e", "r", "r", "o", "r">>,
       <<"n", "o", "-", "a", "n", "s", "w", "e", "r", "-", "v", "o", "i", "c", "e", "m", "a", "i", "l">>,
       <<"l", "i", "n", "e", "_", "b", "u", "s", "y", "-", "d", "i", "d", "-", "n", "o", "t", "-", "a", "n", "s", "w", "e", "r">> >>

InitReason ==
    /\ calls = <<>>
    /\ now = 0
    /\ inflight = <<>>
    /\ last = NoLast
    /\ probe \in [reason : 1..Len(EndedReasons), current : CallStatus,
                  done : {FALSE}, push : {""}, pull : {""}]

ApplyMapEndedReason ==
    /\ probe.done = FALSE
    /\ probe' = [probe EXCEPT
                    !.done = TRUE,
                    !.push = webhook_map_ended_reason(EndedReasons[probe.reason],
                                                      probe.current),
                    !.pull = calls_map_ended_reason(EndedReasons[probe.reason],
                                                    probe.current)]
    /\ UNCHANGED <<calls, now, inflight, last>>

SpecReason == InitReason /\ [][ApplyMapEndedReason]_vars

----------------------------------------------------------------------------
(* Ingestion without a lock: an invocation reads the row, and in a later   *)
(* step reconciles the copy it read and saves the fields it changed onto   *)
(* the row as it then is.  Invocations of the same call interleave.        *)

Invocation(kind, id, k) == [kind |-> kind, id |-> id, call |-> calls[id], snap |-> k]

Remove(seq, i) == SubSeq(seq, 1, i - 1) \o SubSeq(seq, i + 1, Len(seq))

\* a count that admits every request
AdmissionCount_zero(user) == 0

\* the count create_call takes at its admission gate
AdmissionCount(user) == get_active_call_count(user)

\* create_call up to the insert: the admission count and the contact and
\* script lookups, with no lock held on the owner's calls
CreateCallAdmit(user, contact_found, script_found) ==
    /\ Len(inflight) < MaxInflight
    /\ UNCHANGED <<now, probe>>
    /\ IF AdmissionCount(user) >= MAX_PENDING_CALLS
       THEN RaiseBeforeInsert(user, "MaxActiveCallsError") /\ UNCHANGED inflight
       ELSE IF ~contact_found
       THEN RaiseBeforeInsert(user, "ContactNotFoundError") /\ UNCHANGED inflight
       ELSE IF ~script_found
       THEN RaiseBeforeInsert(user, "ScriptNotFoundError") /\ UNCHANGED inflight
       ELSE /\ inflight' = Append(inflight,
                                  [kind |-> "create_call", user |-> user,
                                   count |-> AdmissionCount(user)])
            /\ UNCHANGED calls
            /\ last' = [NoLast EXCEPT !.op = "read"]

\* create_call from the insert on, for a request already admitted
CreateCallInsert(i, provider_ok, cap) ==
    /\ i \in 1..Len(inflight)
    /\ inflight[i].kind = "create_call"
    /\ InsertAndDial(inflight[i].user, provider_ok, None, cap, "id")
    /\ inflight' = Remove(inflight, i)
    /\ UNCHANGED <<now, probe>>

\* _handle_status_update up to find_by_vapi_call_id
StatusUpdateRead(vapi_call_id, k) ==
    /\ Len(inflight) < MaxInflight
    /\ VapiStatusMapGet(StatusMessages[k].status) # ""
    /\ HasProviderId(vapi_call_id)
    /\ \E id \in find_by_vapi_call_id(vapi_call_id) :
            inflight' = Append(inflight, Invocation("status-update", id, k))
    /\ UNCHANGED <<calls, now, probe>>
    /\ last' = [NoLast EXCEPT !.op = "read"]

\* _handle_status_update from the guard to call.save()
StatusUpdateWrite(i) ==
    /\ i \in 1..Len(inflight)
    /\ inflight[i].kind = "status-update"
    /\ LET inv == inflight[i]
           r == status_update_on(inv.call, StatusMessages[inv.snap])
       IN  /\ calls' = IF r.saved
                       THEN [calls EXCEPT
                               ![inv.id] = Save(@, r.call, r.update_fields, now)]
                       ELSE calls
           /\ last' = Respond("status-update", inv.id,
                             IF r.saved THEN "applied" ELSE "rejected", r, inv.snap)
    /\ inflight' = Remove(inflight, i)
    /\ UNCHANGED <<now, probe>>

\* _handle_end_of_call_report up to find_by_vapi_call_id
EndOfCallRead(vapi_call_id, k) ==
    /\ Len(inflight) < MaxInflight
    /\ HasProviderId(vapi_call_id)
    /\ \E id \in find_by_vapi_call_id(vapi_call_id) :
            inflight' = Append(inflight, Invocation("end-of-call-report", id, k))
    /\ UNCHANGED <<calls, now, probe>>
    /\ last' = [NoLast EXCEPT !.op = "read"]

\* _handle_end_of_call_report from the status mapping to call.save()
EndOfCallWrite(i) ==
    /\ i \in 1..Len(inflight)
    /\ inflight[i].kind = "end-of-call-report"
    /\ LET inv == inflight[i]
           r == end_of_call_report_on(inv.call, EndOfCallMessages[inv.snap])
       IN  /\ calls' = [calls EXCEPT
                           ![inv.id] = Save(@, r.call, r.update_fields, now)]
           /\ last' = Respond("end-of-call-report", inv.id, "applied", r, inv.snap)
    /\ inflight' = Remove(inflight, i)
    /\ UNCHANGED <<now, probe>>

\* get_call up to the provider lookup, for a call that will be synced
GetCallRead(id, k) ==
    /\ Len(inflight) < MaxInflight
    /\ Exists(id)
    /\ calls[id].status \in ACTIVE_STATUSES
    /\ HasProviderId(calls[id].vapi_call_id)
    /\ inflight' = Append(inflight, Invocation("get_call", id, k))
    /\ UNCHANGED <<calls, now, probe>>
    /\ last' = [NoLast EXCEPT !.op = "read"]

\* get_call from the provider's answer to call.save()
GetCallWrite(i) ==
    /\ i \in 1..Len(inflight)
    /\ inflight[i].kind = "get_call"
    /\ LET inv == inflight[i]
           r == ReconcileAndSave(calls[inv.id], inv.call, inv.snap, now)
       IN  /\ calls' = [calls EXCEPT ![inv.id] = r.row]
           /\ last' = Record("get_call", inv.id, r.result, r, inv.snap)
    /\ inflight' = Remove(inflight, i)
    /\ UNCHANGED <<now, probe>>

NextConcOn(cfg) ==
    \/ \E user \in cfg.users, provider_ok \in BOOLEAN, m \in cfg.metadata :
            CreateCall(user, TRUE, TRUE, provider_ok, CreateMetadata[m], cfg.calls,
                       "id")
    \/ \E vapi_call_id \in WebhookCallIds(cfg.calls), k \in cfg.status :
            StatusUpdateRead(vapi_call_id, k)
    \/ \E vapi_call_id \in WebhookCallIds(cfg.calls), k \in cfg.eoc :
            EndOfCallRead(vapi_call_id, k)
    \/ \E id \in 1..cfg.calls, k \in cfg.pull : GetCallRead(id, k)
    \/ \E i \in 1..MaxInflight : StatusUpdateWrite(i)
    \/ \E i \in 1..MaxInflight : EndOfCallWrite(i)
    \/ \E i \in 1..MaxInflight : GetCallWrite(i)

\* the payloads that carry a status or an end reason and nothing else
ConcCfg ==
    [users |-> 1..NumUsers, calls |-> MaxCalls, metadata |-> {1},
     status |-> 1..Len(StatusMessages),
     eoc |-> PlainEndOfCall,
     pull |-> PlainPull]

NextConc == NextConcOn(ConcCfg)

SpecConc == Init /\ [][NextConc]_vars

\* the payloads that carry content: a status-update `in-progress` with its
\* timestamp, the end-of-call-reports and the pull response of an ended
\* call with the contents A and B
ConcContentCfg ==
    [users |-> 1..NumUsers, calls |-> MaxCalls, metadata |-> {1},
     status |-> {4},
     eoc |-> {5, 6},
     pull |-> {9, 10}]

NextConcContent == NextConcOn(ConcContentCfg)

SpecConcContent == Init /\ [][NextConcContent]_vars

\* creation requests of one owner that interleave, and the webhooks that
\* move and end the calls (a status-update `ringing`, an end-of-call-report
\* with no reason)
RaceCfg ==
    [users |-> {1}, calls |-> RaceCalls, metadata |-> {1},
     status |-> {3},
     eoc |-> {4},
     pull |-> {}]

NextRace ==
    \/ \E user \in RaceCfg.users, contact_found, script_found \in BOOLEAN :
            CreateCallAdmit(user, contact_found, script_found)
    \/ \E i \in 1..MaxInflight, provider_ok \in BOOLEAN :
            CreateCallInsert(i, provider_ok, RaceCfg.calls)
    \/ HandleWebhook(RaceCfg)

SpecRace == Init /\ [][NextRace]_vars

----------------------------------------------------------------------------
(* The maintenance command (management/commands/sync_stale_calls.py): one   *)
(* run is the poll sweep followed by the stale sweep.  For the eventual     *)
(* outcomes of the calls, create_call is taken in two steps, the insert of  *)
(* the pending row and the provider's answer, which may never come; a call  *)
(* is inserted only while the clock can still carry it past the hard        *)
(* threshold.                                                              *)

\* the rows after the poll sweep of a run: each selected row whose lookup
\* succeeded is reconciled and saved
PollSwept(fetch) ==
    [i \in 1..Len(calls) |->
        IF i \in SweepReached(fetch) /\ fetch[i] # 0
        THEN ReconcileAndSave(calls[i], calls[i], fetch[i], now).row
        ELSE calls[i]]

\* a stale sweep that selects nothing
StaleAmong_none(rows) == {}

\* the rows mark_stale_calls selects among rows
StaleAmong(rows) ==
    {i \in 1..Len(rows) :
        /\ rows[i].status \in STALE_ELIGIBLE_STATUSES
        /\ rows[i].created_at < now - STALE_CALL_THRESHOLD_SECONDS}

\* a command that runs the stale sweep on the rows as they were before its
\* poll sweep
HandleStaleSweep_first(rows) ==
    [i \in 1..Len(rows) |->
        IF i \in StaleAmong(calls)
        THEN [calls[i] EXCEPT !.status = FAILED,
                              !.error_message = "Call timed out"]
        ELSE rows[i]]

\* the stale sweep of a run, on the rows its poll sweep left
HandleStaleSweep(rows) ==
    [i \in 1..Len(rows) |->
        IF i \in StaleAmong(rows)
        THEN [rows[i] EXCEPT !.status = FAILED,
                             !.error_message = "Call timed out"]
        ELSE rows[i]]

\* Command.handle: sync_stale_queued_calls(), then mark_stale_calls()
SyncStaleCalls(fetch) ==
    /\ UNCHANGED <<now, inflight, probe>>
    /\ calls' = HandleStaleSweep(PollSwept(fetch))
    /\ last' = [NoLast EXCEPT
                    !.op = "sync_stale_calls",
                    !.requests = [i \in 1..Cardinality(DOMAIN fetch) |-> "get_call"],
                    !.fetched = fetch]

\* the last instant the clock reaches
LastInstant(step, max) == (max \div step) * step

\* create_call up to the insert of the pending row, the request to the
\* provider being in flight
CreateCallPersist(user, cap, latest) ==
    /\ Len(calls) < cap
    /\ Len(inflight) < MaxInflight
    /\ now + STALE_CALL_THRESHOLD_SECONDS < latest
    /\ get_active_call_count(user) < MAX_PENDING_CALLS
    /\ calls' = Append(calls, NewCall(user, None, now))
    /\ inflight' = Append(inflight,
                          [kind |-> "create_outbound_call", id |-> Len(calls) + 1,
                           call |-> NewCall(user, None, now), snap |-> 0])
    /\ last' = [NoLast EXCEPT !.op = "insert", !.id = Len(calls) + 1, !.user = user]
    /\ UNCHANGED <<now, probe>>

\* create_call from the provider's answer on: the row becomes queued with
\* the provider id, or failed when the request or that save raised
CreateCallAnswered(i, provider_ok, response) ==
    /\ i \in 1..Len(inflight)
    /\ inflight[i].kind = "create_outbound_call"
    /\ LET id == inflight[i].id
           call == inflight[i].call
           created == provider_ok /\ ~UniqueViolation(ResponseId(response, id))
           update_fields == IF created
                            THEN <<"vapi_call_id", "status", "updated_at">>
                            ELSE <<"status", "error_message", "updated_at">>
       IN  /\ calls' = [calls EXCEPT ![id] =
                          IF created
                          THEN Save(@, [call EXCEPT
                                          !.vapi_call_id = ResponseId(response, id),
                                          !.status = QUEUED],
                                    update_fields, now)
                          ELSE Save(@, [call EXCEPT
                                          !.status = FAILED,
                                          !.error_message =
                                              IF provider_ok THEN "IntegrityError"
                                              ELSE "VapiAPIError"],
                                    update_fields, now)]
           /\ last' = [Record("create_call", id,
                              IF created THEN "created"
                              ELSE IF provider_ok THEN "IntegrityError"
                              ELSE "VapiAPIError",
                              [update_fields |-> update_fields, saved |-> TRUE], 0)
                           EXCEPT !.user = call.user,
                                  !.requests = <<"create_outbound_call">>]
    /\ inflight' = Remove(inflight, i)
    /\ UNCHANGED <<now, probe>>

\* Calls that get no signal: a status-update `ringing` or an
\* end-of-call-report may arrive or be lost, the provider answers the
\* lookups of the poll sweep with `queued` or not at all, and the clock
\* passes the queued-sync and the hard thresholds.
LiveCfg ==
    [users |-> {1}, calls |-> LiveCalls,
     metadata |-> {1},
     status |-> {3},
     eoc |-> {1},
     pull |-> {1},
     cancel |-> {},
     save_ok |-> {TRUE},
     ids |-> {"id", "no_id"}]

LiveTickStep == TickBy(LiveTick, LiveMaxNow)

LiveCommand == \E fetch \in [StaleQueuedCalls -> Fetches(LiveCfg)] : SyncStaleCalls(fetch)

NextLive ==
    \/ CreateCallPersist(1, LiveCfg.calls, LastInstant(LiveTick, LiveMaxNow))
    \/ \E i \in 1..MaxInflight, provider_ok \in BOOLEAN, response \in LiveCfg.ids :
            CreateCallAnswered(i, provider_ok, response)
    \/ HandleWebhook(LiveCfg)
    \/ LiveCommand
    \/ LiveTickStep

\* the command keeps being run and time passes
SpecLive ==
    Init /\ [][NextLive]_vars /\ WF_vars(LiveCommand) /\ WF_vars(LiveTickStep)

\* Calls whose webhooks are all lost and that nobody reads: creation, the
\* command with the provider answering every lookup of its poll sweep
\* (`queued`, `ringing`, `in-progress`, or `ended`), and the clock.
FallbackCfg ==
    [users |-> {1}, calls |-> LiveCalls,
     metadata |-> {1},
     status |-> {},
     eoc |-> {},
     pull |-> {1, 2, 3, 6},
     cancel |-> {},
     save_ok |-> {TRUE},
     ids |-> {"id"}]

FallbackCreate ==
    /\ now + STALE_CALL_THRESHOLD_SECONDS < LastInstant(LiveTick, LiveMaxNow)
    /\ \E provider_ok \in BOOLEAN :
            CreateCall(1, TRUE, TRUE, provider_ok, CreateMetadata[1],
                       FallbackCfg.calls, "id")

FallbackCommand ==
    \E fetch \in [StaleQueuedCalls -> FallbackCfg.pull] : SyncStaleCalls(fetch)

NextFallback ==
    \/ FallbackCreate
    \/ FallbackCommand
    \/ LiveTickStep

\* the command keeps being run and time passes
SpecFallback ==
    Init /\ [][NextFallback]_vars /\ WF_vars(FallbackCommand) /\ WF_vars(LiveTickStep)

\* Every operation, each executed atomically, over several calls of one
\* owner: creation, a status-update `ringing` and an end-of-call-report,
\* reads and syncs answered `ringing` or `ended`, cancellation, both
\* sweeps, and the clock passing both thresholds.
QuotaCfg ==
    [users |-> {1}, calls |-> QuotaCalls,
     metadata |-> {1},
     status |-> {3},
     eoc |-> {4},
     pull |-> {2, 6},
     cancel |-> {},
     save_ok |-> {TRUE},
     ids |-> {"id"}]

NextQuota ==
    \/ \E provider_ok \in BOOLEAN :
            CreateCall(1, TRUE, TRUE, provider_ok, CreateMetadata[1], QuotaCfg.calls,
                       "id")
    \/ HandleWebhook(QuotaCfg)
    \/ \E id \in 1..QuotaCfg.calls, fetch \in QuotaCfg.pull : GetCall(id, 1, fetch, TRUE)
    \/ \E id \in 1..QuotaCfg.calls, stop_ok \in BOOLEAN :
            CancelCall(id, 1, 0, TRUE, stop_ok)
    \/ MarkStaleCalls
    \/ \E fetch \in [StaleQueuedCalls -> QuotaCfg.pull] : SyncStaleQueuedCalls(fetch)
    \/ Tick

SpecQuota == Init /\ [][NextQuota]_vars

\* Runs of the command over calls of several ages, each lookup of its poll
\* sweep failing or answered `queued`, `ringing`, `in-progress` or `ended`.
CommandRun ==
    \E fetch \in [StaleQueuedCalls -> Fetches(FallbackCfg)] : SyncStaleCalls(fetch)

NextCommand ==
    \/ FallbackCreate
    \/ CommandRun
    \/ LiveTickStep

SpecCommand == Init /\ [][NextCommand]_vars

\* One call under snapshots whose timestamps come in every combination: a
\* status-update `in-progress` with its timestamp, end-of-call-reports and
\* pull responses carrying both timestamps, endedAt alone or startedAt
\* alone, through the read and the poll sweep, with the stale sweep and the
\* clock.
DurationCfg ==
    [users |-> {1}, calls |-> 1,
     metadata |-> {1},
     status |-> {4},
     eoc |-> {5, 6, 7, 8},
     pull |-> {8, 9, 11, 12, 13},
     cancel |-> {},
     save_ok |-> {TRUE},
     ids |-> {"id"}]

NextDuration ==
    \/ \E provider_ok \in BOOLEAN :
            CreateCall(1, TRUE, TRUE, provider_ok, CreateMetadata[1],
                       DurationCfg.calls, "id")
    \/ HandleWebhook(DurationCfg)
    \/ \E fetch \in Fetches(DurationCfg) : GetCall(1, 1, fetch, TRUE)
    \/ \E fetch2 \in DurationCfg.pull : SyncCallStatus(1, 1, 0, TRUE, fetch2)
    \/ \E fetch \in [StaleQueuedCalls -> DurationCfg.pull] : SyncStaleQueuedCalls(fetch)
    \/ MarkStaleCalls
    \/ Tick

SpecDuration == Init /\ [][NextDuration]_vars

----------------------------------------------------------------------------
(* _handle_status_update as a function of the resolved call and the event: *)
(* every status with started_at empty or set and every status-update       *)
(* message is an initial state, and the one action delivers the event to   *)
(* the call, up to two times in a row.                                      *)

\* the call the event resolves to
DeliveryRow(status, started_at) ==
    [NewCall(1, None, 0) EXCEPT
        !.status = status, !.vapi_call_id = Some(1), !.started_at = started_at]

InitDelivery ==
    /\ calls = <<>>
    /\ now = 0
    /\ inflight = <<>>
    /\ last = NoLast
    /\ probe \in [status : CallStatus, started_at : {None, Some(3)},
                  k : 1..Len(StatusMessages), deliveries : {0},
                  once : {<<>>}, twice : {<<>>}]

\* the row after _handle_status_update has handled message for it
DeliveredTo(row, message) ==
    IF VapiStatusMapGet(message.status) = ""
    THEN row
    ELSE LET r == status_update_on(row, message)
         IN  IF r.saved THEN Save(row, r.call, r.update_fields, now) ELSE row

DeliverStatusUpdate ==
    /\ probe.deliveries < 2
    /\ probe' =
        IF probe.deliveries = 0
        THEN [probe EXCEPT
                !.deliveries = 1,
                !.once = DeliveredTo(DeliveryRow(probe.status, probe.started_at),
                                     StatusMessages[probe.k])]
        ELSE [probe EXCEPT
                !.deliveries = 2,
                !.twice = DeliveredTo(probe.once, StatusMessages[probe.k])]
    /\ UNCHANGED <<calls, now, inflight, last>>

SpecDelivery == InitDelivery /\ [][DeliverStatusUpdate]_vars

----------------------------------------------------------------------------
(* Properties                                                              *)

PushOps == {"status-update", "end-of-call-report"}

PullOps == {"get_call", "sync_call_status", "sync_stale_queued_calls"}

\* the last operation resolved call `last.id` and ran a reconciler on it
Reconciled(l) == l.id # 0 /\ l.result \in {"applied", "rejected"}

\* the status a status-update message asks for
PushCandidate(k) == VapiStatusMapGet(StatusMessages[k].status)

\* the status a pull response asks for, as _reconcile_call_from_vapi derives it
PullCandidate(call, k) == pull_new_status(call, PullResponses[k])

\* the transcript an end-of-call message carries
PushTranscript(k) ==
    OrStr(EndOfCallMessages[k].transcript, EndOfCallMessages[k].artifact.transcript)

\* the transcript a pull response carries
PullTranscript(k) ==
    OrStr(PullResponses[k].transcript, PullResponses[k].artifact.transcript)

\* C1: once a call's status is terminal, no push or pull reconciliation
\* changes it to a different value.
C1_TerminalStatusKept ==
    [][\A id \in 1..Len(calls) :
          (/\ calls[id].status \in TERMINAL_STATUSES
           /\ last'.op \in PushOps \cup PullOps)
          => calls'[id].status = calls[id].status]_vars

\* C2: whatever operation runs, the order of a call's persisted status
\* never decreases, and a terminal status never becomes non-terminal.
C2_StatusOrderMonotone ==
    [][\A id \in 1..Len(calls) :
          /\ StatusOrderGet(calls'[id].status) >= StatusOrderGet(calls[id].status)
          /\ calls[id].status \in TERMINAL_STATUSES
                => calls'[id].status \in TERMINAL_STATUSES]_vars

\* a snapshot asking for an earlier status reached a call that had moved on
C2_Witness ==
    /\ last.op \in PushOps \cup PullOps
    /\ last.id # 0
    /\ last.result = "rejected"
    /\ calls[last.id].status \in TERMINAL_STATUSES

\* C3: when ingestion invocations of one call interleave without a lock,
\* the order of the persisted status never decreases.
C3_NoRegressionUnderRace ==
    [][\A id \in 1..Len(calls) :
          StatusOrderGet(calls'[id].status) >= StatusOrderGet(calls[id].status)]_vars

\* C4: once cancel_call has marked a call cancelled, no webhook changes its
\* status.
C4_CancelledStaysCancelled ==
    [][\A id \in 1..Len(calls) :
          (calls[id].status = CANCELLED /\ last'.op \in PushOps)
          => calls'[id].status = CANCELLED]_vars

\* the order of the claim: pending 0, queued 1, initiated 2, ringing 3,
\* in-progress 4, every terminal status 10
C5_Order(status) ==
    CASE status = "pending" -> 0
      [] status = "queued" -> 1
      [] status = "initiated" -> 2
      [] status = "ringing" -> 3
      [] status = "in-progress" -> 4
      [] status \in {"completed", "failed", "cancelled", "no-answer", "busy",
                     "voicemail"} -> 10

\* C5: on every pair of canonical statuses both guards answer true exactly
\* when the candidate is terminal or not below the current status.
C5_GuardTable ==
    probe.done =>
        /\ probe.push <=> (\/ C5_Order(probe.new) = 10
                           \/ C5_Order(probe.new) >= C5_Order(probe.current))
        /\ probe.pull <=> probe.push

\* both guards were applied to a pair they reject and to a pair they accept
\* only because the candidate is terminal
C5_Witness ==
    /\ probe.done
    /\ probe.current = IN_PROGRESS
    /\ probe.new = QUEUED
    /\ ~probe.push

\* C6: a status-update asking for a non-terminal status below the call's
\* current status changes no field of any call and saves nothing.
C6_StaleStatusUpdateIgnored ==
    [][(/\ last'.op = "status-update"
        /\ last'.id # 0
        /\ PushCandidate(last'.snap) \notin TERMINAL_STATUSES
        /\ StatusOrderGet(PushCandidate(last'.snap))
              < StatusOrderGet(calls[last'.id].status))
       => (calls' = calls /\ ~last'.saved /\ last'.update_fields = <<>>)]_vars

\* `queued` arrived at a call that is in-progress
C6_Witness ==
    /\ last.op = "status-update"
    /\ last.id # 0
    /\ PushCandidate(last.snap) = QUEUED
    /\ calls[last.id].status = IN_PROGRESS
    /\ ~last.saved

\* C7: when the guard rejects the candidate status of a pull snapshot, the
\* reconciliation returns an empty change set and the row keeps every value,
\* whatever content the snapshot carries.  The reconciliations whose input is
\* the row as it was before the operation are get_call's and, on a row
\* get_call does not refresh, sync_call_status's.
C7_RejectedPullDiscarded ==
    [][(/\ Reconciled(last')
        /\ \/ last'.op = "get_call"
           \/ /\ last'.op = "sync_call_status"
              /\ calls[last'.id].status \notin ACTIVE_STATUSES
        /\ ~is_valid_status_transition(
                calls[last'.id].status, PullCandidate(calls[last'.id], last'.snap)))
       => (/\ last'.update_fields = <<>>
           /\ ~last'.saved
           /\ calls'[last'.id] = calls[last'.id])]_vars

\* a rejected pull snapshot carried a transcript the row lacks
C7_Witness ==
    /\ last.op \in {"get_call", "sync_call_status"}
    /\ Reconciled(last)
    /\ last.result = "rejected"
    /\ PullTranscript(last.snap) # ""
    /\ calls[last.id].transcript = ""

\* C8: the second of two consecutive deliveries of one end-of-call snapshot
\* to a call is a no-op: the row is the same, the change set is empty and
\* nothing is saved.
C8_SecondDeliveryNoOp ==
    [][(/\ last.op \in {"end-of-call-report", "sync_call_status"}
        /\ last'.op = last.op
        /\ Reconciled(last) /\ Reconciled(last')
        /\ last'.id = last.id
        /\ last'.snap = last.snap
        /\ last.op = "sync_call_status" => PullResponses[last.snap].status = "ended")
       => (/\ calls'[last.id] = calls[last.id]
           /\ last'.update_fields = <<>>
           /\ ~last'.saved)]_vars

\* the fields of a row other than the save timestamp
ContentFields == CallFields \ {"updated_at"}

\* C9: the change set of a pull reconciliation lists a field exactly when
\* the field's value changed, and is empty, with nothing saved, when no
\* field changed.
C9_ChangeSetExact ==
    [][(last'.op = "get_call" /\ Reconciled(last'))
       => (/\ \A f \in ContentFields :
                InSeq(f, last'.update_fields)
                    <=> calls'[last'.id][f] # calls[last'.id][f]
           /\ (\A f \in ContentFields : calls'[last'.id][f] = calls[last'.id][f])
                => (last'.update_fields = <<>> /\ ~last'.saved))]_vars

\* C10: transcript, summary, analysis, started_at and ended_at are
\* write-once: a non-empty value is never changed by a later operation.
C10_WriteOnce ==
    [][\A id \in 1..Len(calls) :
          /\ calls[id].transcript # "" => calls'[id].transcript = calls[id].transcript
          /\ calls[id].summary # <<>> => calls'[id].summary = calls[id].summary
          /\ calls[id].analysis # <<>> => calls'[id].analysis = calls[id].analysis
          /\ calls[id].started_at # None
                => calls'[id].started_at = calls[id].started_at
          /\ calls[id].ended_at # None
                => calls'[id].ended_at = calls[id].ended_at]_vars

\* a snapshot carrying another transcript was reconciled into a call that
\* already had one
C10_Witness ==
    /\ Reconciled(last)
    /\ last.result = "applied"
    /\ calls[last.id].transcript # ""
    /\ \/ /\ last.op = "end-of-call-report"
          /\ PushTranscript(last.snap) \notin {"", calls[last.id].transcript}
       \/ /\ last.op = "sync_call_status"
          /\ PullTranscript(last.snap) \notin {"", calls[last.id].transcript}

\* the metadata values an end-of-call message supplies, by the handler's
\* precedence between message and message.call
PushMeta(k) ==
    LET message == EndOfCallMessages[k]
    IN  [recordingUrl |-> OrStr(message.recordingUrl, message.call.recordingUrl),
         stereoRecordingUrl |->
             OrStr(message.stereoRecordingUrl, message.call.stereoRecordingUrl),
         messages |-> OrSeq(message.messages, message.call.messages),
         cost |-> IF message.call.cost # None THEN message.call.cost
                  ELSE message.cost,
         costBreakdown |-> OrSeq(message.call.costBreakdown, message.costBreakdown)]

\* the metadata values a pull response supplies
PullMeta(k) ==
    [recordingUrl |-> PullResponses[k].recordingUrl,
     stereoRecordingUrl |-> PullResponses[k].stereoRecordingUrl,
     messages |-> PullResponses[k].messages,
     cost |-> PullResponses[k].cost,
     costBreakdown |-> PullResponses[k].costBreakdown]

\* the metadata values supplied by the snapshot of the operation l
SnapshotMeta(l) ==
    IF l.op = "end-of-call-report" THEN PushMeta(l.snap) ELSE PullMeta(l.snap)

\* the metadata keys a snapshot supplies a value for
SuppliedKeys(s) ==
    {key \in {"recordingUrl", "stereoRecordingUrl"} : s[key] # ""}
    \cup {key \in {"messages", "costBreakdown"} : s[key] # <<>>}
    \cup {key \in {"cost"} : s[key] # None}

\* the value a snapshot supplies for a key, as it is stored
SuppliedValue(s, key) == IF key = "cost" THEN s[key][1] ELSE s[key]

\* C11: metadata is merged key by key.  No operation removes a metadata
\* key; and after a snapshot has been reconciled (push end-of-call-report,
\* or a pull the guard accepted) every key the snapshot supplies holds the
\* snapshot's value and every other local key keeps its value.
C11_MetadataMerge ==
    [][\A id \in 1..Len(calls) :
          /\ DOMAIN calls[id].metadata \subseteq DOMAIN calls'[id].metadata
          /\ (/\ last'.op \in {"end-of-call-report", "get_call", "sync_call_status"}
              /\ last'.id = id
              /\ last'.result = "applied")
             => LET s == SnapshotMeta(last')
                    old == calls[id].metadata
                    new == calls'[id].metadata
                IN  /\ \A key \in SuppliedKeys(s) :
                            key \in DOMAIN new /\ new[key] = SuppliedValue(s, key)
                    /\ \A key \in DOMAIN old \ SuppliedKeys(s) :
                            new[key] = old[key]]_vars

\* a snapshot supplying another recording url was merged into metadata that
\* already held one, beside a key of the caller's own
C11_Witness ==
    /\ Reconciled(last)
    /\ last.result = "applied"
    /\ last.op \in {"end-of-call-report", "sync_call_status"}
    /\ "source" \in DOMAIN calls[last.id].metadata
    /\ "cost" \in DOMAIN calls[last.id].metadata
    /\ "recordingUrl" \in SuppliedKeys(SnapshotMeta(last))
    /\ "cost" \notin SuppliedKeys(SnapshotMeta(last))
    /\ calls[last.id].metadata.recordingUrl = "recB"

\* C12: duration_seconds is never negative, is computed only when it is not
\* set and both timestamps are present, equals the whole seconds from
\* started_at to ended_at (0 when ended_at is the earlier), and once set,
\* to 0 included, is neither recomputed nor listed as changed again.
C12_DurationLaw ==
    [][\A id \in 1..Len(calls) :
          /\ calls'[id].duration_seconds # None
                => calls'[id].duration_seconds[1] >= 0
          /\ calls[id].duration_seconds # None
                => calls'[id].duration_seconds = calls[id].duration_seconds
          /\ (last'.id = id /\ InSeq("duration_seconds", last'.update_fields))
                => /\ calls[id].duration_seconds = None
                   /\ calls'[id].started_at # None
                   /\ calls'[id].ended_at # None
                   /\ calls'[id].duration_seconds =
                        Some(IF calls'[id].ended_at[1] >= calls'[id].started_at[1]
                             THEN calls'[id].ended_at[1] - calls'[id].started_at[1]
                             ELSE 0)]_vars

\* the class the priority busy > no-answer > voicemail > error > silence >
\* fallback gives each reason of EndedReasons, read case-insensitively and
\* with `-` for `_`
C13_Class ==
    << "busy",
       "no-answer",
       "completed",
       "failed",
       "voicemail",
       "fallback",
       "fallback",
       "fallback",
       "busy",
       "busy",
       "no-answer",
       "voicemail",
       "failed",
       "no-answer",
       "busy" >>

\* C13: both copies of _map_ended_reason return, for every reason and
\* current status, the status of the reason's class; a reason of no class
\* gives completed on a non-terminal call and the current status on a
\* terminal one.
C13_EndReasonClassified ==
    probe.done =>
        /\ probe.push =
              IF C13_Class[probe.reason] = "fallback"
              THEN (IF probe.current \in {"completed", "failed", "cancelled",
                                          "no-answer", "busy", "voicemail"}
                    THEN probe.current ELSE "completed")
              ELSE C13_Class[probe.reason]
        /\ probe.pull = probe.push

\* a reason holding both `error` and `busy` was classified, on a call
\* already failed
C13_Witness ==
    /\ probe.done
    /\ probe.reason = 10
    /\ probe.current = FAILED
    /\ probe.push = BUSY

\* the row a status-update with provider status s leaves, delivered to a
\* call the handler resolves
PushLiveRow(row, s) ==
    IF VapiStatusMapGet(s) = "" THEN row
    ELSE LET r == status_update_on(row, StatusMessage(s, None))
         IN  IF r.saved THEN Save(row, r.call, r.update_fields, now) ELSE row

\* the row an end-of-call-report leaves
PushEndRow(row, message) ==
    LET r == end_of_call_report_on(row, message)
    IN  Save(row, r.call, r.update_fields, now)

\* the row a pull of the response vapi_data leaves
PullRow(row, vapi_data) ==
    LET r == reconcile_call_from_vapi(row, vapi_data)
    IN  IF r.update_fields # <<>> THEN Save(row, r.call, r.update_fields, now)
        ELSE row

\* the provider's live statuses
LiveStatuses ==
    {"scheduled", "queued", "ringing", "in-progress", "forwarding", "ended"}

\* C14: in every reachable state, for every call that has a provider id,
\* a snapshot leaves the same status whether it is pushed or pulled: a live
\* status as a status-update or as a pull response, an end of call (with
\* its content) as an end-of-call-report or as an `ended` pull response,
\* which also leave the same content fields.
C14_ChannelsAgree ==
    \A id \in 1..Len(calls) :
        calls[id].vapi_call_id # None =>
            /\ \A s \in LiveStatuses :
                    PushLiveRow(calls[id], s).status
                        = PullRow(calls[id], PullResponse(s, <<>>, NoContent)).status
            /\ \A reason \in {<<>>, R_customer_ended, R_customer_busy},
                  c \in {NoContent, ContentA, ContentB} :
                    \A f \in ContentFields :
                        PushEndRow(calls[id], EndOfCallMessage(reason, c))[f]
                            = PullRow(calls[id], PullResponse("ended", reason, c))[f]

\* C15: in every reachable state the status of every call is one of the 11
\* canonical statuses.
C15_StatusCanonical ==
    \A id \in 1..Len(calls) :
        calls[id].status \in
            {"pending", "queued", "initiated", "ringing", "in-progress",
             "completed", "failed", "cancelled", "no-answer", "busy", "voicemail"}

\* a pull response whose status the code has no canonical name for was
\* reconciled against a call
C15_Witness ==
    /\ last.op \in {"get_call", "sync_call_status"}
    /\ Reconciled(last)
    /\ PullResponses[last.snap].status = "forwarding"
    /\ calls[last.id].status = QUEUED

\* the calls of an owner that are in a non-terminal status
C16_ActiveOf(user) ==
    {i \in 1..Len(calls) :
        /\ calls[i].user = user
        /\ calls[i].status \in {"pending", "queued", "initiated", "ringing",
                                "in-progress"}}

\* C16: create_call is rejected with MaxActiveCallsError exactly when its
\* owner already holds 2 or more calls in non-terminal statuses; terminal
\* calls and other owners' calls do not count.
C16_Admission ==
    [][last'.op = "create_call"
       => (last'.result = "MaxActiveCallsError"
            <=> Cardinality(C16_ActiveOf(last'.user)) >= 2)]_vars

\* an owner holding a queued and a ringing call, beside a terminal call of
\* their own, was refused
C16_Witness ==
    /\ last.op = "create_call"
    /\ last.result = "MaxActiveCallsError"
    /\ {calls[i].status : i \in C16_ActiveOf(last.user)} = {QUEUED, RINGING}
    /\ \E i \in 1..Len(calls) :
            calls[i].user = last.user /\ calls[i].status \in TERMINAL_STATUSES

\* C17: when create_call fails with an admission or lookup error, the table
\* of calls is exactly what it was and no request went to the provider.
C17_FailedCreateLeavesNothing ==
    [][(/\ last'.op = "create_call"
        /\ last'.result \in {"MaxActiveCallsError", "ContactNotFoundError",
                             "ScriptNotFoundError"})
       => (calls' = calls /\ last'.requests = <<>>)]_vars

\* a creation failed on its script lookup while other calls existed
C17_Witness ==
    /\ last.op = "create_call"
    /\ last.result = "ScriptNotFoundError"
    /\ Len(calls) = 2

\* the calls that are pending or queued and were created more than the
\* staleness threshold of 600 seconds ago
C18_Stale ==
    {i \in 1..Len(calls) :
        /\ calls[i].status \in {"pending", "queued"}
        /\ now - calls[i].created_at > 600}

\* C18: the stale sweep sets to failed, with the time-out message, exactly
\* the pending or queued calls older than the threshold, leaves every other
\* call as it is, and returns the number of calls it failed.
C18_StaleSweepExact ==
    [][last'.op = "mark_stale_calls"
       => /\ \A id \in 1..Len(calls) :
                IF id \in C18_Stale
                THEN /\ calls'[id].status = "failed"
                     /\ calls'[id].error_message = "Call timed out"
                ELSE calls'[id] = calls[id]
          /\ Len(calls') = Len(calls)
          /\ last'.snap = Cardinality(C18_Stale)]_vars

\* a sweep failed an old queued call and passed over a call in progress of
\* the same age
C18_Witness ==
    /\ last.op = "mark_stale_calls"
    /\ last.snap = 1
    /\ Len(calls) = 2
    /\ \E i, j \in 1..Len(calls) :
            /\ calls[i].status = FAILED
            /\ calls[i].error_message = "Call timed out"
            /\ calls[j].status = IN_PROGRESS
            /\ calls[j].created_at = calls[i].created_at

\* C19: a create_call that inserted its row leaves it queued, with the
\* provider's id, when the provider accepted the request, and failed, with
\* the error text in error_message and the error raised, when the provider
\* request failed; no call is ever left pending.
C19_CreateNeverLeavesPending ==
    [][/\ \A id \in 1..Len(calls') : calls'[id].status # "pending"
       /\ (last'.op = "create_call" /\ last'.id # 0)
          => /\ Len(calls') = Len(calls) + 1
             /\ last'.id = Len(calls')
             /\ last'.requests = <<"create_outbound_call">>
             /\ IF last'.result = "created"
                THEN /\ calls'[last'.id].status = "queued"
                     /\ calls'[last'.id].vapi_call_id # None
                     /\ calls'[last'.id].error_message = ""
                ELSE /\ last'.result = "VapiAPIError"
                     /\ calls'[last'.id].status = "failed"
                     /\ calls'[last'.id].error_message = "VapiAPIError"
                     /\ calls'[last'.id].vapi_call_id = None]_vars

\* the provider request of a creation failed
C19_Witness ==
    /\ last.op = "create_call"
    /\ last.result = "VapiAPIError"
    /\ last.id # 0
    /\ calls[last.id].status = FAILED
    /\ calls[last.id].error_message # ""

\* C20: get_call asks the provider only about a call whose status is active
\* and which has a provider id; and when the lookup, the reconciliation or
\* the save of that opportunistic sync fails, get_call still returns, the
\* persisted call is what it was, and the call returned is the persisted
\* call, with no field changed that was not saved.
C20_ReadSyncFailsClean ==
    [][(last'.op = "get_call" /\ last'.id # 0)
       => LET id == last'.id
          IN  /\ last'.requests # <<>>
                    => /\ calls[id].status \in {"queued", "ringing", "in-progress"}
                       /\ calls[id].vapi_call_id # None
              /\ last'.result \in {"fetch_failed", "save_failed"}
                    => /\ calls' = calls
                       /\ last'.returned = calls'[id]]_vars

\* the calls that are queued, were created more than the queued-sync
\* threshold of 120 seconds ago and have a provider id that is neither null
\* nor empty
C21_Selected ==
    {i \in 1..Len(calls) :
        /\ calls[i].status = "queued"
        /\ now - calls[i].created_at > 120
        /\ calls[i].vapi_call_id # None
        /\ calls[i].vapi_call_id # EmptyId}

\* C21: the scheduled poll sweep asks the provider about exactly the queued
\* calls older than the queued-sync threshold that have a non-empty provider
\* id, and reconciles each of them whose lookup answers; every other call
\* (another status, younger, null or empty provider id) is neither fetched
\* nor modified.
C21_PollSweepExact ==
    [][last'.op = "sync_stale_queued_calls"
       => /\ DOMAIN last'.fetched = C21_Selected
          /\ Len(last'.requests) = Cardinality(C21_Selected)
          /\ Len(calls') = Len(calls)
          /\ \A id \in 1..Len(calls) :
                IF id \in C21_Selected
                THEN last'.fetched[id] # 0
                        => calls'[id] = PullRow(calls[id],
                                                PullResponses[last'.fetched[id]])
                ELSE calls'[id] = calls[id]]_vars

\* a sweep moved an old queued call to ringing and passed over a queued
\* call of the same age whose provider id is empty
C21_Witness ==
    /\ last.op = "sync_stale_queued_calls"
    /\ \E i, j \in 1..Len(calls) :
            /\ i \in DOMAIN last.fetched
            /\ last.fetched[i] # 0
            /\ calls[i].status = "ringing"
            /\ j \notin DOMAIN last.fetched
            /\ calls[j].status = "queued"
            /\ calls[j].vapi_call_id = EmptyId
            /\ now - calls[j].created_at > 120

\* C22: in a run of the scheduled poll sweep in which the lookup of a
\* selected call fails, the sweep still gets to every selected call: a call
\* whose lookup failed is left as it was, queued and selected again by the
\* next run, and every selected call whose lookup answered is reconciled
\* and saved in that run, wherever the failing call stands in the selection.
C22_FetchFailureSkipsOneCall ==
    [][(/\ last'.op = "sync_stale_queued_calls"
        /\ \E id \in C21_Selected :
                id \in DOMAIN last'.fetched => last'.fetched[id] = 0)
       => \A id \in C21_Selected :
            /\ id \in DOMAIN last'.fetched
            /\ IF last'.fetched[id] = 0
               THEN /\ calls'[id] = calls[id]
                    /\ calls'[id].status = "queued"
                    /\ id \in C21_Selected'
               ELSE calls'[id] = PullRow(calls[id],
                                         PullResponses[last'.fetched[id]])]_vars

\* the lookup of the first of two selected calls failed and the second was
\* moved to ringing in the same run
C22_Witness ==
    /\ last.op = "sync_stale_queued_calls"
    /\ DOMAIN last.fetched = {1, 2}
    /\ last.fetched[1] = 0
    /\ last.fetched[2] = 2
    /\ calls[1].status = "queued"
    /\ calls[2].status = "ringing"
    /\ calls[2].updated_at = now
    /\ last.snap = 1

\* C23: a webhook with an event type no handler is registered for, a
\* status-update with an unmapped status, a webhook with a missing or
\* unknown provider call id, and a status-update whose transition the guard
\* rejects are each answered {ok: true} and leave every call as it was.
C23_PushProblemsAcknowledged ==
    [][(\/ last'.op = "ignored"
        \/ /\ last'.op = "status-update"
           /\ last'.result \in {"unmapped", "no_id", "unknown_id", "rejected"}
        \/ /\ last'.op = "end-of-call-report"
           /\ last'.result \in {"no_id", "unknown_id"})
       => (last'.response = [ok |-> TRUE] /\ calls' = calls)]_vars

\* a status-update `ringing` reached a call in progress and was rejected
C23_Witness ==
    /\ last.op = "status-update"
    /\ last.result = "rejected"
    /\ last.snap = 3
    /\ calls[last.id].status = "in-progress"
    /\ last.response = [ok |-> TRUE]

\* the operations a webhook request ends in: the endpoint's rejection, or a
\* handler of the dispatcher
C24_WebhookOps == {"vapi_webhook", "status-update", "end-of-call-report", "ignored"}

\* C24: when a webhook secret is configured and the request's secret header
\* is not equal to it, the request is rejected with the authentication error
\* before any handler runs and no call changes; when no secret is
\* configured, every request reaches the dispatcher whatever its header.
C24_SecretGate ==
    [][last'.op \in C24_WebhookOps
       => /\ (probe.secret # <<>> /\ probe.received # probe.secret)
                => /\ last'.op = "vapi_webhook"
                   /\ last'.result = "WebhookAuthenticationError"
                   /\ calls' = calls
          /\ probe.secret = <<>> => last'.op # "vapi_webhook"]_vars

\* C25: cancel_call on a call that is in a terminal status, or that has no
\* provider id, fails with CallNotCancellableError, sends no stop request to
\* the provider and leaves the status of the call as it was.
C25_CancelRefused ==
    [][(/\ last'.op = "cancel_call"
        /\ last'.id # 0
        /\ \/ calls[last'.id].status \in {"completed", "failed", "cancelled",
                                          "no-answer", "busy", "voicemail"}
           \/ calls[last'.id].vapi_call_id \in {None, EmptyId})
       => /\ last'.result = "CallNotCancellableError"
          /\ ~InSeq("end_call", last'.requests)
          /\ calls'[last'.id].status = calls[last'.id].status]_vars

\* the cancellation of a queued call without a provider id was refused
C25_Witness ==
    /\ last.op = "cancel_call"
    /\ last.id # 0
    /\ last.result = "CallNotCancellableError"
    /\ calls[last.id].status = "queued"
    /\ calls[last.id].vapi_call_id = None

C27_Timestamp(k) ==
    LET t == StatusMessages[k].timestamp
    IN  IF t # None /\ t[1] >= 0 THEN t ELSE None

\* C27: a status-update that moves a call into `in-progress` (provider
\* status `in-progress` or `forwarding`) sets started_at from the timestamp
\* of the event when started_at is unset and leaves it as it is when it is
\* set; a status-update to any other status, or one that is not applied,
\* leaves started_at as it is.
C27_StartedAtOnInProgress ==
    [][(last'.op = "status-update" /\ last'.id # 0)
       => LET id == last'.id
              moved == /\ last'.result = "applied"
                       /\ StatusMessages[last'.snap].status
                              \in {"in-progress", "forwarding"}
          IN  IF moved /\ calls[id].started_at = None
              THEN /\ calls'[id].started_at = C27_Timestamp(last'.snap)
                   /\ calls'[id].status = "in-progress"
              ELSE calls'[id].started_at = calls[id].started_at]_vars

\* a status-update `in-progress` stamped 5 set started_at on a call that had
\* none
C27_Witness ==
    /\ last.op = "status-update"
    /\ last.id # 0
    /\ last.result = "applied"
    /\ last.snap = 4
    /\ InSeq("started_at", last.update_fields)
    /\ calls[last.id].started_at = Some(5)

\* C28: every operation that changes a persisted field of a call sets that
\* call's updated_at to the time of the operation, a call is inserted with
\* updated_at at the time of its insertion, and created_at never changes
\* after the insertion.
C28_UpdatedAtBumped ==
    [][/\ Len(calls') >= Len(calls)
       /\ \A id \in 1..Len(calls') :
            IF id \in 1..Len(calls)
            THEN /\ calls'[id].created_at = calls[id].created_at
                 /\ calls'[id] # calls[id] => calls'[id].updated_at = now'
            ELSE /\ calls'[id].created_at = now'
                 /\ calls'[id].updated_at = now']_vars

\* the row an in-flight invocation leaves when it writes onto row
C29_WriteOnto(inv, row) ==
    CASE inv.kind = "status-update" ->
            LET r == status_update_on(inv.call, StatusMessages[inv.snap])
            IN  IF r.saved THEN Save(row, r.call, r.update_fields, now) ELSE row
      [] inv.kind = "end-of-call-report" ->
            LET r == end_of_call_report_on(inv.call, EndOfCallMessages[inv.snap])
            IN  Save(row, r.call, r.update_fields, now)
      [] OTHER ->
            LET r == reconcile_call_from_vapi(inv.call, PullResponses[inv.snap])
            IN  IF r.update_fields # <<>>
                THEN Save(row, r.call, r.update_fields, now) ELSE row

\* the write-once content of a row
C29_Content(row) ==
    <<row.transcript, row.summary, row.analysis, row.started_at, row.ended_at>>

\* two invocations of one call are in flight and both have read the row as
\* it is persisted, neither having written
C29_BothRead(i, j) ==
    /\ i # j
    /\ inflight[i].id = inflight[j].id
    /\ inflight[i].call = calls[inflight[i].id]
    /\ inflight[j].call = calls[inflight[j].id]

\* C29: when two ingestion invocations of one call have both read the row
\* before either writes, the persisted transcript, summary, analysis,
\* started_at and ended_at after both writes are the same for either order
\* of the writes; and no step replaces a non-empty persisted value of one
\* of these fields by another value.
C29_ContentConverges ==
    /\ [](\A i, j \in 1..Len(inflight) :
            C29_BothRead(i, j)
                => LET row == calls[inflight[i].id]
                   IN  C29_Content(C29_WriteOnto(inflight[j],
                                                 C29_WriteOnto(inflight[i], row)))
                       = C29_Content(C29_WriteOnto(inflight[i],
                                                   C29_WriteOnto(inflight[j], row))))
    /\ [][\A id \in 1..Len(calls) :
            /\ calls[id].transcript # ""
                    => calls'[id].transcript = calls[id].transcript
            /\ calls[id].summary # <<>> => calls'[id].summary = calls[id].summary
            /\ calls[id].analysis # <<>> => calls'[id].analysis = calls[id].analysis
            /\ calls[id].started_at # None
                    => calls'[id].started_at = calls[id].started_at
            /\ calls[id].ended_at # None
                    => calls'[id].ended_at = calls[id].ended_at]_vars

\* the creation requests of a user that have passed the admission gate and
\* have not inserted their call yet
C30_Admitted(user) ==
    {i \in 1..Len(inflight) :
        inflight[i].kind = "create_call" /\ inflight[i].user = user}

\* C30: the admission gate counts and the creation inserts with no lock in
\* between, so creation requests of one owner that interleave, each having
\* counted fewer than the maximum of 2 active calls, take the owner past
\* the maximum (3 active calls are reached); the owner's active calls and
\* admitted requests together never exceed the maximum less one plus the
\* number of requests that can be in flight.
C30_OvershootByInterleaving ==
    \A user \in RaceCfg.users :
        /\ \A i \in C30_Admitted(user) : inflight[i].count < 2
        /\ Cardinality(C16_ActiveOf(user)) + Cardinality(C30_Admitted(user))
                <= 2 - 1 + MaxInflight

\* three calls of one owner are active, the last inserted by a request that
\* had counted fewer than two
C30_Witness ==
    /\ last.op = "create_call"
    /\ last.result = "created"
    /\ Cardinality(C16_ActiveOf(last.user)) >= 3

\* C31: a call without a provider id (null or "") is out of reach of every
\* reconciliation path: the poll sweep does not fetch it, a read does not
\* sync it and sends no request, no webhook resolves to it, and a
\* cancellation of it is refused and leaves it as it is; the only step that
\* changes its status is the stale sweep, which fails it exactly when it is
\* pending or queued and older than the hard threshold.
C31_Stale(i) ==
    /\ calls[i].status \in STALE_ELIGIBLE_STATUSES
    /\ calls[i].created_at < now - STALE_CALL_THRESHOLD_SECONDS

C31_InvisibleWithoutProviderId ==
    [][\A i \in 1..Len(calls) :
        calls[i].vapi_call_id \in {None, EmptyId} =>
            /\ last'.op = "sync_stale_queued_calls" => i \notin DOMAIN last'.fetched
            /\ last'.op = "get_call" /\ last'.id = i =>
                    /\ last'.result = "not_synced"
                    /\ last'.requests = <<>>
                    /\ calls'[i] = calls[i]
            /\ last'.op = "sync_call_status" /\ last'.id = i =>
                    /\ last'.result = "CallNotCancellableError"
                    /\ last'.requests = <<>>
                    /\ calls'[i] = calls[i]
            /\ last'.op \in PushOps => last'.id # i
            /\ last'.op = "cancel_call" /\ last'.id = i =>
                    /\ last'.result = "CallNotCancellableError"
                    /\ last'.requests = <<>>
                    /\ calls'[i] = calls[i]
            /\ calls'[i].status # calls[i].status =>
                    /\ last'.op = "mark_stale_calls"
                    /\ C31_Stale(i)
                    /\ calls'[i].status = FAILED
            /\ last'.op = "mark_stale_calls" /\ C31_Stale(i) =>
                    calls'[i].status = FAILED]_vars

\* a queued call whose provider id is "" has been failed by the stale sweep
C31_Witness ==
    /\ last.op = "mark_stale_calls"
    /\ last.snap = 1
    /\ \E i \in 1..Len(calls) :
        /\ calls[i].vapi_call_id = EmptyId
        /\ calls[i].status = FAILED
        /\ calls[i].error_message = "Call timed out"

\* C32: while the maintenance command keeps being run and time passes, a
\* call that is pending or queued does not stay so: it becomes failed, unless
\* a signal moves it to another status first; and after every run of the
\* command no call older than the hard threshold is pending or queued.
C32_Waiting(i) == Exists(i) /\ calls[i].status \in STALE_ELIGIBLE_STATUSES

C32_FailedOrMoved(i) ==
    /\ Exists(i)
    /\ \/ calls[i].status = FAILED
       \/ calls[i].status \in CallStatus \ (STALE_ELIGIBLE_STATUSES \cup {FAILED})

C32_BackstopLiveness ==
    /\ \A i \in 1..LiveCalls :
            C32_Waiting(i) ~> C32_FailedOrMoved(i)
    /\ [][last'.op = "sync_stale_calls" =>
            \A i \in 1..Len(calls) :
                calls[i].created_at < now - STALE_CALL_THRESHOLD_SECONDS =>
                    calls'[i].status \notin STALE_ELIGIBLE_STATUSES]_vars

\* a call whose creation never got the provider's answer, still pending
\* past the threshold, has been failed by a run of the command
C32_Witness ==
    /\ last.op = "sync_stale_calls"
    /\ \E i \in 1..Len(calls) :
        /\ calls[i].status = FAILED
        /\ calls[i].error_message = "Call timed out"
        /\ calls[i].vapi_call_id = None
        /\ \E j \in 1..Len(inflight) : inflight[j].id = i

\* C33: with every webhook lost and no reads, the maintenance command run
\* again and again with the provider answering brings every created call
\* to a terminal status, a call that a poll has advanced to ringing or
\* in-progress included.
C33_Terminal(i) == Exists(i) /\ calls[i].status \in TERMINAL_STATUSES

C33_FallbackReachesTerminal ==
    \A i \in 1..LiveCalls : Exists(i) ~> C33_Terminal(i)

\* C34: with every operation executed atomically, an owner never holds more
\* than MAX_PENDING_CALLS calls in active statuses, and no operation other
\* than create_call increases an owner's number of active calls.
C34_ActiveOf(user) ==
    Cardinality({i \in 1..Len(calls) :
                    /\ calls[i].user = user
                    /\ calls[i].status \in {PENDING, QUEUED, INITIATED, RINGING,
                                            IN_PROGRESS}})

C34_ActiveBounded ==
    /\ [](\A user \in QuotaCfg.users : C34_ActiveOf(user) <= 2)
    /\ [][last'.op # "create_call" =>
            \A user \in QuotaCfg.users : C34_ActiveOf(user)' <= C34_ActiveOf(user)]_vars

\* the owner holds two active calls beside an ended one, and a further
\* create_call has just been refused
C34_Witness ==
    /\ last.op = "create_call"
    /\ last.result = "MaxActiveCallsError"
    /\ C34_ActiveOf(1) = 2
    /\ \E i \in 1..Len(calls) : calls[i].status \in TERMINAL_STATUSES

\* C35: a run of the maintenance command polls before it sweeps.  A queued
\* call with a provider id that is older than the hard threshold is looked
\* up in the run; when the lookup succeeds with a progressed or ended
\* status the call takes that status in the run and is not failed by the
\* run's stale sweep; and the run's stale sweep fails a call only if the
\* call is pending or queued once the poll sweep is over.
C35_Old(i) == calls[i].created_at < now - STALE_CALL_THRESHOLD_SECONDS

\* the lookup of call i succeeded in the run with a progressed or ended status
C35_Progressed(i, fetched) ==
    /\ i \in DOMAIN fetched
    /\ fetched[i] # 0
    /\ PullCandidate(calls[i], fetched[i]) \notin {PENDING, QUEUED}

C35_PollBeforeStaleSweep ==
    [][last'.op = "sync_stale_calls" =>
        \A i \in 1..Len(calls) :
            /\ (calls[i].status = QUEUED /\ C35_Old(i)
                    /\ calls[i].vapi_call_id \notin {None, EmptyId}) =>
                    /\ i \in DOMAIN last'.fetched
                    /\ C35_Progressed(i, last'.fetched) =>
                        /\ calls'[i].status =
                                PullCandidate(calls[i], last'.fetched[i])
                        /\ calls'[i].error_message # "Call timed out"
            /\ (calls'[i] # calls[i] /\ calls'[i].status = FAILED
                    /\ calls'[i].error_message = "Call timed out") =>
                    /\ calls[i].status \in {PENDING, QUEUED}
                    /\ C35_Old(i)
                    /\ ~C35_Progressed(i, last'.fetched)]_vars

\* a run has polled a call older than the hard threshold and left it with
\* the status the provider reported: ringing
C35_Witness ==
    /\ last.op = "sync_stale_calls"
    /\ \E i \in DOMAIN last.fetched :
        /\ C35_Old(i)
        /\ last.fetched[i] = 2
        /\ calls[i].status = RINGING

\* C36: after every operation, a call whose started_at and ended_at are both
\* set has duration_seconds set, to the whole seconds from the persisted
\* started_at to the persisted ended_at, 0 when ended_at is the earlier.
C36_DurationDerived ==
    \A i \in 1..Len(calls) :
        (calls[i].started_at # None /\ calls[i].ended_at # None) =>
            /\ calls[i].duration_seconds # None
            /\ calls[i].duration_seconds =
                    Some(IF calls[i].ended_at[1] >= calls[i].started_at[1]
                         THEN calls[i].ended_at[1] - calls[i].started_at[1]
                         ELSE 0)

\* C37: the same status-update event delivered twice in a row leaves the
\* call with the status and the started_at that one delivery leaves it
\* with, whatever the status of the call before.
C37_DuplicateHarmless ==
    probe.deliveries = 2 =>
        /\ probe.twice.status = probe.once.status
        /\ probe.twice.started_at = probe.once.started_at

\* an `in-progress` event was delivered twice to a queued call: the first
\* delivery moved the call and set started_at
C37_Witness ==
    /\ probe.deliveries = 2
    /\ probe.status = QUEUED
    /\ probe.started_at = None
    /\ StatusMessages[probe.k].status = "in-progress"
    /\ probe.once.status = IN_PROGRESS
    /\ probe.once.started_at = Some(5)
    /\ probe.twice.status = IN_PROGRESS

\* C38: no two calls hold the same non-null provider id, and a webhook
\* event changes no call other than the one whose provider id is the
\* call.id the event carries.
C38_ProviderIdUnique ==
    /\ [](\A i, j \in 1..Len(calls) :
            (i # j /\ calls[i].vapi_call_id # None) =>
                calls[i].vapi_call_id # calls[j].vapi_call_id)
    /\ [][last'.op \in {"status-update", "end-of-call-report", "ignored"} =>
            \A i \in 1..Len(calls) :
                calls'[i] # calls[i] =>
                    /\ last'.event # None
                    /\ calls[i].vapi_call_id = last'.event]_vars

\* two calls hold provider ids; an event carrying the id of the second has
\* changed the second and left the first queued
C38_Witness ==
    /\ last.op \in {"status-update", "end-of-call-report"}
    /\ last.result = "applied"
    /\ last.id = 2
    /\ calls[2].vapi_call_id = last.event
    /\ calls[2].status # QUEUED
    /\ calls[1].vapi_call_id \notin {None, last.event}
    /\ calls[1].status = QUEUED

====
